---- MODULE Spec2Model ----
(***************************************************************************)
(* Model of jamesog/scan: the HTTP handlers that ingest masscan results    *)
(* (POST /results, PUT /results/{id}), create jobs (POST /job), and the    *)
(* SQLite storage layer they call (internal/sqlite).                       *)
(*                                                                         *)
(* Every HTTP request is served by its own goroutine; a handler is split   *)
(* into one action per SQL statement or transaction boundary, so that the  *)
(* statements of concurrent requests interleave as they do on the          *)
(* database.  The database is a single SQLite file in rollback-journal     *)
(* mode: a deferred transaction takes the SHARED lock at its first read,   *)
(* the RESERVED lock at its first write (one holder at a time) and can      *)
(* commit only when no other connection holds SHARED.                      *)
(***************************************************************************)
EXTENDS Integers, Sequences, FiniteSets, TLC

(***************************************************************************)
(* Bounds of the model.                                                    *)
(***************************************************************************)
NumProcs == 2        \* concurrent request goroutines
MaxReqs == 3         \* requests served in one behaviour
MaxBatch == 2        \* records in one posted batch
MaxJobs == 1         \* jobs created in one behaviour
MaxTicks == 1        \* clock ticks after the start of the behaviour
MaxFaults == 1       \* storage faults (I/O errors) injected in one behaviour
TicksPerSec == 2     \* clock resolution: ticks in one second
ReadDelay == 1       \* ReadSpec: ticks from the second boundary to the start
MaxReadTicks == 1    \* ReadSpec: clock ticks after the start
SweptDelay == 3      \* SweptSpec: ticks from the second boundary to the start
MaxSweptTicks == 1   \* SweptSpec: clock ticks after the start
MaxFormJobs == 2     \* JobSpec: jobs created in one behaviour
IngestTicks == 2     \* IngestSpec: clock ticks after the start of the behaviour

Procs == 1..NumProcs
NoProc == 0

\* Times are ticks since the Unix epoch, time.Unix(0, 0).
UnixEpoch == 0

\* The zero time.Time (year 1, before the epoch): what a NULL datetime column
\* scans to, and the zero value of a time.Time variable.
ZeroTime == -1

IPs == {"192.0.2.1", "192.0.2.2"}

\* scan.Result with its Ports[0] flattened: one port per record; nports is
\* len(Ports).
Rec(ip, status, name, banner) ==
    [ip |-> ip, nports |-> 1, port |-> 80, proto |-> "tcp", status |-> status,
     name |-> name, banner |-> banner]

\* {"ip": "192.0.2.1", "ports": []}: a record with an empty list of ports
NoPorts == [Rec("192.0.2.1", "", "", "") EXCEPT !.nports = 0, !.port = 0, !.proto = ""]

Records ==
    {Rec(ip, "open", "", "") : ip \in IPs}
        \cup {Rec("192.0.2.1", "", "", ""), Rec("192.0.2.1", "open", "http", "")}

RECURSIVE SeqsUpTo(_, _)
SeqsUpTo(S, n) ==
    IF n = 0 THEN {<<>>}
    ELSE LET shorter == SeqsUpTo(S, n - 1)
         IN  shorter \cup {Append(s, x) : s \in {t \in shorter : Len(t) = n - 1}, x \in S}

Batches == SeqsUpTo(Records, MaxBatch)

\* {"ports": [{"status": "open", "service": {"banner": "SSH-2.0"}}]}: a record
\* with a banner and no service name
BannerOnly == Rec("192.0.2.1", "open", "", "SSH-2.0")

\* batches of one key: empty, the port seen open, or its banner
IngestBatches == SeqsUpTo({Rec("192.0.2.1", "open", "", ""), BannerOnly}, 1)

\* batches in which a record can lack its ports
PortlessBatches == SeqsUpTo({Rec("192.0.2.1", "open", "", ""), NoPorts}, MaxBatch)

\* What saveResults finds in the request: the Content-Type is not
\* application/json, the body does not decode, or the body decodes.
WrongContentType == "wrong Content-Type"
UndecodableJSON == "undecodable JSON"
WellFormed == "well-formed"
Payloads == {WrongContentType, UndecodableJSON, WellFormed}

VARIABLES
    clock,       \* wall clock, in ticks
    scan,        \* table scan: sequence of rows, in rowid order
    job,         \* table job: sequence of rows, index = rowid
    submission,  \* table submission: sequence of rows, in rowid order
    users,       \* table users: sequence of emails, in rowid order
    traceroute,  \* table traceroute: sequence of rows, in rowid order
    shared,      \* connections holding the SHARED lock
    reserved,    \* connection holding the RESERVED lock, or NoProc
    work,        \* uncommitted tables of the RESERVED holder
    proc,        \* per request goroutine: position and locals of its handler
    nreq,        \* requests started so far
    faults,      \* storage faults injected so far
    completed,   \* jobs for which a PUT /results/{id} has answered 200
    fulfils      \* per job: committed UpdateJob transactions

dbvars == <<scan, job, submission, users, traceroute>>
lockvars == <<shared, reserved, work>>
hist == <<nreq, faults, completed, fulfils>>
vars == <<clock, dbvars, lockvars, proc, hist>>

\* A goroutine that serves no request.  Fields: pc, the position in the
\* handler; op, the route; res, the decoded batch; jobParam, the {id} URL
\* parameter; now, the handler's now; idx, count, found: SaveData's loop
\* position, its count and whether its SELECT returned a row; commitOK,
\* whether SaveData's txn.Commit() succeeded; status and msg, the response;
\* undone, the writes of SaveData that its txn.Rollback() discarded; filter,
\* the ip, firstseen and lastseen query parameters; latest, LoadData's latest
\* before its first row; sub, the handler's scan.Submission; data, the
\* scan.Data that ResultData returned; form, the form of POST /job; jobID, the
\* IDs newJob has collected from SaveJob; errors, the names of the form fields
\* newJob found missing; jobs, the list GET /jobs renders; user, the user of
\* the request's session ("" when it has none); ips, the list GET /ips.json
\* renders; admin, the form of POST /admin; userList, the users adminHandler
\* loaded before it processes the form; dest and trace, the form value and
\* the file of POST /traceroute, or the {ip} of GET /traceroute/{ip}.
Idle ==
    [pc |-> "idle", op |-> "", res |-> <<>>, jobParam |-> 0, now |-> ZeroTime,
     idx |-> 0, count |-> 0, found |-> FALSE, commitOK |-> TRUE,
     status |-> 0, msg |-> "", undone |-> 0,
     filter |-> [ip |-> "", fs |-> <<>>, ls |-> <<>>], latest |-> ZeroTime,
     sub |-> [host |-> "", job_id |-> 0, time |-> ZeroTime],
     data |-> [results |-> <<>>, total |-> 0, latest |-> 0, new |-> 0, lastseen |-> 0],
     form |-> [parsed |-> TRUE, cidr |-> "", ports |-> "", proto |-> <<>>],
     jobID |-> <<>>, errors |-> <<>>, jobs |-> <<>>, user |-> "", ips |-> <<>>,
     admin |-> [add_email |-> "", delete_email |-> ""], userList |-> <<>>,
     dest |-> "", trace |-> ""]

Tables ==
    [scan |-> scan, job |-> job, submission |-> submission, users |-> users,
     traceroute |-> traceroute]

ViewUncommitted(p) == work

\* What a statement of connection p reads: its own uncommitted pages if it
\* is the writer, the committed database otherwise.
View(p) == IF reserved = p THEN work ELSE Tables

\* time.Now().UTC().Truncate(time.Second)
Truncate(t) == (t \div TicksPerSec) * TicksPerSec

(***************************************************************************)
(* SaveData: the statements and the skip test.                             *)
(***************************************************************************)
SkipStatusOnly(r) == r.status = ""

\* if port.Status == "" || port.Service.Name != "" { continue }
Skip(r) == r.status = "" \/ r.name # ""

SameKey(row, r) == row.ip = r.ip /\ row.port = r.port /\ row.proto = r.proto

ExistsAlwaysNoRows(tbl, r) == FALSE

\* SELECT 1 FROM scan WHERE ip=? AND port=? AND proto=?
Exists(tbl, r) == \E i \in DOMAIN tbl : SameKey(tbl[i], r)

InsertRowNoFirstSeen(tbl, r, t) ==
    Append(tbl, [ip |-> r.ip, port |-> r.port, proto |-> r.proto,
                 firstseen |-> ZeroTime, lastseen |-> t])

\* INSERT INTO scan (ip, port, proto, firstseen, lastseen) VALUES (?, ?, ?, now, now)
InsertRow(tbl, r, t) ==
    Append(tbl, [ip |-> r.ip, port |-> r.port, proto |-> r.proto,
                 firstseen |-> t, lastseen |-> t])

UpdateRowsBoth(tbl, r, t) ==
    [i \in DOMAIN tbl |->
        IF SameKey(tbl[i], r) THEN [tbl[i] EXCEPT !.firstseen = t, !.lastseen = t]
        ELSE tbl[i]]

\* UPDATE scan SET lastseen=? WHERE ip=? AND port=? AND proto=?
UpdateRows(tbl, r, t) ==
    [i \in DOMAIN tbl |->
        IF SameKey(tbl[i], r) THEN [tbl[i] EXCEPT !.lastseen = t] ELSE tbl[i]]

CountAfterInsertOnly(c, wasFound) == IF wasFound THEN c ELSE c + 1

\* count++ in both branches of the switch
CountAfter(c, wasFound) == c + 1

(***************************************************************************)
(* Transactions.                                                           *)
(***************************************************************************)
RollbackKeepsWrites(committed, uncommitted) == uncommitted

\* txn.Rollback(): the uncommitted pages are discarded
Rollback(committed, uncommitted) == committed

\* txn.Commit(): the uncommitted pages become the database
Commit(committed, uncommitted) == uncommitted

\* RESERVED can be taken when no other connection holds it.
CanWrite(p) == reserved \in {NoProc, p}

\* A writer commits (takes EXCLUSIVE) when no other connection reads; a
\* transaction that wrote nothing only gives up its SHARED lock.
CanCommit(p) == reserved # p \/ shared \ {p} = {}

\* The tables after connection p ends its transaction with outcome f
\* (Commit or Rollback), and the locks released.
EndTxn(p, after) ==
    /\ scan' = after.scan
    /\ job' = after.job
    /\ submission' = after.submission
    /\ users' = after.users
    /\ traceroute' = after.traceroute
    /\ shared' = shared \ {p}
    /\ reserved' = IF reserved = p THEN NoProc ELSE reserved
    /\ work' = IF reserved = p THEN after ELSE work

RollbackTxn(p) == EndTxn(p, Rollback(Tables, View(p)))
CommitTxn(p) == EndTxn(p, Commit(Tables, View(p)))

\* A statement of p writes the tables w into its uncommitted pages.
WriteTxn(p, w) ==
    /\ reserved' = p
    /\ shared' = shared \cup {p}
    /\ work' = w
    /\ UNCHANGED dbvars

\* The handler of p moves to label with its locals changed to l.
Goto(p, l, label) == proc' = [proc EXCEPT ![p] = [l EXCEPT !.pc = label]]

\* The handler of p writes its response and returns.
Respond(p, code, text) ==
    proc' = [proc EXCEPT ![p] = [Idle EXCEPT !.pc = "done", !.op = proc[p].op,
                                             !.jobParam = proc[p].jobParam,
                                             !.idx = proc[p].idx,
                                             !.status = code, !.msg = text]]

\* SaveData returns 0, err after txn.Rollback(); the handler answers 500.
SaveDataError(p, text) ==
    proc' = [proc EXCEPT ![p] = [Idle EXCEPT !.pc = "done", !.op = proc[p].op,
                                             !.jobParam = proc[p].jobParam,
                                             !.idx = proc[p].idx,
                                             !.undone = proc[p].count,
                                             !.status = 500, !.msg = text]]

\* Requests are served by interchangeable goroutines: a new request takes
\* the first free one.
Free(p) == proc[p].pc = "idle" /\ \A q \in Procs : q < p => proc[q].pc # "idle"

(***************************************************************************)
(* Job and submission rows.                                                *)
(***************************************************************************)
NullJob == 0         \* job_id IS NULL
JobIDs == 1..MaxJobs

\* INSERT INTO job (cidr, ports, proto, requested_by, submitted) VALUES (...)
\* received and count are left NULL.
InsertJob(tbl, cidr, ports, proto, user, t) ==
    Append(tbl, [cidr |-> cidr, ports |-> ports, proto |-> proto,
                 requested_by |-> user, submitted |-> t,
                 received |-> ZeroTime, count |-> 0])

UpdateJobRowUnsetsOnZero(tbl, id, t, c) ==
    [i \in DOMAIN tbl |->
        IF i = id
        THEN [tbl[i] EXCEPT !.received = IF c = 0 THEN ZeroTime ELSE t, !.count = c]
        ELSE tbl[i]]

\* UPDATE job SET received=?, count=? WHERE rowid=?
UpdateJobRow(tbl, id, t, c) ==
    [i \in DOMAIN tbl |->
        IF i = id THEN [tbl[i] EXCEPT !.received = t, !.count = c] ELSE tbl[i]]

\* res.RowsAffected() of that UPDATE
RowsAffected(tbl, id) == IF id \in DOMAIN tbl THEN 1 ELSE 0

JobDoesNotExistAsSubmitted == "Job already submitted"

\* http.Error(w, "Job does not exist", http.StatusBadRequest)
JobDoesNotExist == "Job does not exist"

\* http.Error(w, "Job already submitted", http.StatusBadRequest)
JobAlreadySubmitted == "Job already submitted"

ReceivedNeverChecked(j) == FALSE

\* !jobs[0].Received.IsZero()
AlreadySubmitted(j) == j.received # ZeroTime

InsertSubmissionTwice(tbl, host, jobID, t) ==
    Append(Append(tbl, [host |-> host, job_id |-> jobID, time |-> t]),
           [host |-> host, job_id |-> jobID, time |-> t])

\* INSERT INTO submission (host, job_id, submission_time) VALUES (?, ?, ?)
InsertSubmission(tbl, host, jobID, t) ==
    Append(tbl, [host |-> host, job_id |-> jobID, time |-> t])

(***************************************************************************)
(* Reading: LoadSubmission, LoadData and ResultData.                       *)
(***************************************************************************)
\* scan.Submission{}: host "", Job 0, the zero Time
ZeroSubmission == [host |-> "", job_id |-> 0, time |-> ZeroTime]

\* the WHERE clauses the callers of LoadSubmission pass
WhereNullJob == "job_id IS NULL"
WhereNotNullJob == "job_id IS NOT NULL"
WhereAll == ""

SubmissionMatchesNone(row, where) == FALSE

SubmissionMatches(row, where) ==
    CASE where = WhereNullJob -> row.job_id = NullJob
      [] where = WhereNotNullJob -> row.job_id # NullJob
      [] OTHER -> TRUE

RECURSIVE LoadSubmissionOldest(_, _)
LoadSubmissionOldest(tbl, where) ==
    IF tbl = <<>> THEN ZeroSubmission
    ELSE IF SubmissionMatches(Head(tbl), where) THEN Head(tbl)
    ELSE LoadSubmissionOldest(Tail(tbl), where)

\* SELECT host, job_id, submission_time FROM submission <where>
\* ORDER BY rowid DESC LIMIT 1; sql.ErrNoRows leaves the zero values
RECURSIVE LoadSubmission(_, _)
LoadSubmission(tbl, where) ==
    IF tbl = <<>> THEN ZeroSubmission
    ELSE IF SubmissionMatches(tbl[Len(tbl)], where) THEN tbl[Len(tbl)]
    ELSE LoadSubmission(SubSeq(tbl, 1, Len(tbl) - 1), where)

\* time.Unix(i, 0)
FromUnix(i) == i * TicksPerSec

\* t.Unix(): whole seconds since the epoch, rounded down
Unix(t) == t \div TicksPerSec

\* The query parameters of GET /: ip, firstseen, lastseen; an absent
\* parameter is "" (for the two timestamps: the empty sequence).
Query(ip, fs, ls) == [ip |-> ip, fs |-> fs, ls |-> ls]
NoFilter == Query("", <<>>, <<>>)
Queries == {NoFilter, Query("192.0.2.2", <<>>, <<>>)}

\* The WHERE clause ResultData builds: ip LIKE %ip%, firstseen=?, lastseen=?
\* (the addresses of the model contain no other address of the model).
Matches(row, f) ==
    /\ f.ip = "" \/ row.ip = f.ip
    /\ f.fs = <<>> \/ row.firstseen = FromUnix(f.fs[1])
    /\ f.ls = <<>> \/ row.lastseen = FromUnix(f.ls[1])

\* the place of an address in the order of its text
IPRank(ip) == IF ip = "192.0.2.1" THEN 1 ELSE IF ip = "192.0.2.2" THEN 2 ELSE 3

\* ORDER BY port, proto, ip, lastseen (every row of the model is tcp)
RowBefore(a, b) ==
    \/ a.port < b.port
    \/ /\ a.port = b.port
       /\ \/ IPRank(a.ip) < IPRank(b.ip)
          \/ a.ip = b.ip /\ a.lastseen < b.lastseen

RECURSIVE InsertOrdered(_, _)
InsertOrdered(s, r) ==
    IF s = <<>> THEN <<r>>
    ELSE IF RowBefore(r, Head(s)) THEN <<r>> \o s
    ELSE <<Head(s)>> \o InsertOrdered(Tail(s), r)

RECURSIVE OrderBy(_)
OrderBy(s) ==
    IF s = <<>> THEN <<>>
    ELSE InsertOrdered(OrderBy(SubSeq(s, 1, Len(s) - 1)), s[Len(s)])

\* SELECT ip, port, proto, firstseen, lastseen FROM scan <filter> ORDER BY ...
SelectScan(tbl, f) == OrderBy(SelectSeq(tbl, LAMBDA row : Matches(row, f)))

IsNewIgnoresFirstSeen(firstseen, lastseen, latest) == lastseen = latest

\* New: firstseen.Equal(lastseen) && lastseen == latest
IsNew(firstseen, lastseen, latest) == firstseen = lastseen /\ lastseen = latest

IsGoneInverted(lastseen, latest) == ~(lastseen < latest)

\* Gone: lastseen.Before(latest)
IsGone(lastseen, latest) == lastseen < latest

\* The rows.Next() loop of LoadData: latest starts at the time of the last
\* unscoped submission and is raised by each row as the row is read.
RECURSIVE LoadData(_, _)
LoadData(rows, latest) ==
    IF rows = <<>> THEN <<>>
    ELSE LET r == Head(rows)
             l == IF r.lastseen > latest THEN r.lastseen ELSE latest
         IN  <<[ip |-> r.ip, port |-> r.port, proto |-> r.proto,
                firstseen |-> r.firstseen, lastseen |-> r.lastseen,
                new |-> IsNew(r.firstseen, r.lastseen, l),
                gone |-> IsGone(r.lastseen, l)]>> \o LoadData(Tail(rows), l)

ResultLatestZero == ZeroTime

\* latest := time.Unix(0, 0)
ResultLatestInit == UnixEpoch

\* for _, r := range results { if last.After(latest) { latest = last } }
RECURSIVE MaxLastSeen(_, _)
MaxLastSeen(results, latest) ==
    IF results = <<>> THEN latest
    ELSE MaxLastSeen(Tail(results),
                     IF Head(results).lastseen > latest THEN Head(results).lastseen
                     ELSE latest)

CountLatestAll(results) == Len(results)

\* if !r.Gone { data.Latest++ }
CountLatest(results) == Cardinality({i \in DOMAIN results : ~results[i].gone})

\* if r.New { data.New++ }
CountNew(results) == Cardinality({i \in DOMAIN results : results[i].new})

\* scan.Data of ResultData, from the rows LoadData returned
ResultData(results) ==
    [results |-> results, total |-> Len(results),
     latest |-> CountLatest(results), new |-> CountNew(results),
     lastseen |-> Unix(MaxLastSeen(results, ResultLatestInit))]

(***************************************************************************)
(* Initial state: the schema exists, every table is empty, no request is   *)
(* being served.                                                           *)
(***************************************************************************)
InitAt(t) ==
    /\ clock = t
    /\ scan = <<>>
    /\ job = <<>>
    /\ submission = <<>>
    /\ users = <<>>
    /\ traceroute = <<>>
    /\ shared = {}
    /\ reserved = NoProc
    /\ work = [scan |-> <<>>, job |-> <<>>, submission |-> <<>>, users |-> <<>>,
               traceroute |-> <<>>]
    /\ proc = [p \in Procs |-> Idle]
    /\ nreq = 0
    /\ faults = 0
    /\ completed = {}
    /\ fulfils = [j \in JobIDs |-> 0]

\* the server starts on a second boundary
Init == InitAt(TicksPerSec)

\* time passes, up to n ticks after the start
TickTo(n) ==
    /\ clock < TicksPerSec + n
    /\ clock' = clock + 1
    /\ UNCHANGED <<dbvars, lockvars, proc, hist>>

Tick == TickTo(MaxTicks)

(***************************************************************************)
(* POST /results: App.recvResults.  SaveData's db.Begin() and its three    *)
(* txn.Prepare() take no lock and are part of this step.                   *)
(***************************************************************************)
\* saveResults up to the call of SaveData, for the handler locals l and a
\* request in which saveResults finds k.  After w.WriteHeader(415) the
\* handler's http.Error cannot change the status any more.
SaveResults(p, l, k) ==
    IF k = WrongContentType
    THEN proc' = [proc EXCEPT ![p] = [Idle EXCEPT !.pc = "done", !.op = l.op,
                     !.jobParam = l.jobParam, !.status = 415, !.msg = "invalid Content-Type"]]
    ELSE IF k = UndecodableJSON
    THEN proc' = [proc EXCEPT ![p] = [Idle EXCEPT !.pc = "done", !.op = l.op,
                     !.jobParam = l.jobParam, !.status = 500, !.msg = "invalid JSON"]]
    ELSE Goto(p, l, "sd_loop")

\* POST /results with a batch of B in a request of a kind of K
RecvResultsOf(p, B, K) ==
    /\ Free(p)
    /\ nreq < MaxReqs
    /\ \E b \in B, k \in K :
        SaveResults(p, [Idle EXCEPT !.op = "POST", !.res = b, !.now = Truncate(clock),
                                    !.idx = 1], k)
    /\ nreq' = nreq + 1
    /\ UNCHANGED <<clock, dbvars, lockvars, faults, completed, fulfils>>

\* POST /results with a well-formed batch
RecvResults(p) == RecvResultsOf(p, Batches, {WellFormed})

(***************************************************************************)
(* PUT /results/{id}: App.recvJobResults                                   *)
(***************************************************************************)
\* LoadJobs(rowid=?) and the checks on its result
RecvJobResultsOf(p, B) ==
    /\ Free(p)
    /\ nreq < MaxReqs
    /\ \E id \in JobIDs, b \in B :
        LET l == [Idle EXCEPT !.op = "PUT", !.res = b, !.jobParam = id] IN
        IF id \notin DOMAIN job
        THEN proc' = [proc EXCEPT ![p] = [l EXCEPT !.pc = "done", !.res = <<>>,
                         !.status = 400, !.msg = JobDoesNotExist]]
        ELSE IF AlreadySubmitted(job[id])
        THEN proc' = [proc EXCEPT ![p] = [l EXCEPT !.pc = "done", !.res = <<>>,
                         !.status = 400, !.msg = JobAlreadySubmitted]]
        ELSE Goto(p, l, "jr_now")
    /\ nreq' = nreq + 1
    /\ UNCHANGED <<clock, dbvars, lockvars, faults, completed, fulfils>>

\* PUT /results/{id} with a well-formed batch
RecvJobResults(p) == RecvJobResultsOf(p, Batches)

\* now := time.Now().UTC(), then saveResults up to SaveData's Prepare, in a
\* request of a kind of K
RecvJobResultsNowOf(p, K) ==
    /\ proc[p].pc = "jr_now"
    /\ \E k \in K : SaveResults(p, [proc[p] EXCEPT !.now = clock, !.idx = 1], k)
    /\ UNCHANGED <<clock, dbvars, lockvars, hist>>

RecvJobResultsNow(p) == RecvJobResultsNowOf(p, {WellFormed})

(***************************************************************************)
(* DB.SaveData, called through App.saveResults                             *)
(***************************************************************************)
\* the loop head: r.Ports[0] (an index out of range panics, with the
\* transaction left open), then a skipped record, or the SELECT for the next
\* record
SaveDataNext(p) ==
    /\ proc[p].pc = "sd_loop"
    /\ proc[p].idx <= Len(proc[p].res)
    /\ LET r == proc[p].res[proc[p].idx] IN
        IF r.nports = 0
        THEN /\ proc' = [proc EXCEPT ![p] = [Idle EXCEPT !.pc = "panic", !.op = proc[p].op,
                            !.jobParam = proc[p].jobParam, !.idx = proc[p].idx]]
             /\ UNCHANGED shared
        ELSE IF Skip(r)
        THEN /\ Goto(p, [proc[p] EXCEPT !.idx = @ + 1], "sd_loop")
             /\ UNCHANGED shared
        ELSE /\ Goto(p, [proc[p] EXCEPT !.found = Exists(View(p).scan, r)], "sd_write")
             /\ shared' = shared \cup {p}
    /\ UNCHANGED <<clock, dbvars, reserved, work, hist>>

\* insert.Exec or update.Exec, and count++
SaveDataWrite(p) ==
    /\ proc[p].pc = "sd_write"
    /\ LET l == proc[p]
           r == l.res[l.idx]
           v == View(p)
       IN  IF CanWrite(p)
           THEN /\ WriteTxn(p, [v EXCEPT !.scan = IF l.found
                                                   THEN UpdateRows(v.scan, r, l.now)
                                                   ELSE InsertRow(v.scan, r, l.now)])
                /\ Goto(p, [l EXCEPT !.count = CountAfter(l.count, l.found),
                                     !.idx = @ + 1, !.found = FALSE], "sd_loop")
           ELSE \* SQLITE_BUSY: txn.Rollback(); return 0, err
                /\ RollbackTxn(p)
                /\ SaveDataError(p, "database is locked")
    /\ UNCHANGED <<clock, hist>>

\* a Prepare, the SELECT or an Exec fails: txn.Rollback(); return 0, err
SaveDataFault(p) ==
    /\ \/ proc[p].pc = "sd_write"
       \/ /\ proc[p].pc = "sd_loop"
          /\ proc[p].idx <= Len(proc[p].res)
          /\ ~Skip(proc[p].res[proc[p].idx])
    /\ faults < MaxFaults
    /\ faults' = faults + 1
    /\ RollbackTxn(p)
    /\ SaveDataError(p, "storage error")
    /\ UNCHANGED <<clock, nreq, completed, fulfils>>

\* txn.Commit(); return count, nil -- the error of Commit is dropped
SaveDataCommit(p) ==
    /\ proc[p].pc = "sd_loop"
    /\ proc[p].idx > Len(proc[p].res)
    /\ IF CanCommit(p)
       THEN /\ CommitTxn(p)
            /\ Goto(p, [proc[p] EXCEPT !.commitOK = TRUE],
                    IF proc[p].op = "POST" THEN "ss_exec" ELSE "uj_exec")
       ELSE \* SQLITE_BUSY: the driver rolls the transaction back
            /\ RollbackTxn(p)
            /\ Goto(p, [proc[p] EXCEPT !.commitOK = FALSE],
                    IF proc[p].op = "POST" THEN "ss_exec" ELSE "uj_exec")
    /\ UNCHANGED <<clock, hist>>

(***************************************************************************)
(* DB.UpdateJob, called by recvJobResults with SaveData's count            *)
(***************************************************************************)
\* UpdateJob returns nil to its caller: recvJobResults goes on to
\* SaveSubmission, a direct caller of the store has its answer.
UpdateJobReturnsNil(p) ==
    IF proc[p].op = "PUT"
    THEN Goto(p, proc[p], "ss_exec")
    ELSE proc' = [proc EXCEPT ![p] = [@ EXCEPT !.pc = "done", !.msg = ""]]

\* UpdateJob returns err to its caller: recvJobResults answers 500.
UpdateJobReturnsErr(p, err) ==
    IF proc[p].op = "PUT"
    THEN Respond(p, 500, err)
    ELSE proc' = [proc EXCEPT ![p] = [@ EXCEPT !.pc = "done", !.msg = err]]

\* db.Begin(); txn.Exec(UPDATE job ...); res.RowsAffected()
UpdateJobExec(p) ==
    /\ proc[p].pc = "uj_exec"
    /\ LET v == View(p)
           id == proc[p].jobParam
       IN  IF ~CanWrite(p)
           THEN \* SQLITE_BUSY: Exec returns a nil Result and RowsAffected
                \* dereferences it; the handler panics with txn left open
                /\ proc' = [proc EXCEPT ![p] = [Idle EXCEPT !.pc = "panic", !.op = proc[p].op,
                                                            !.jobParam = id]]
                /\ UNCHANGED <<dbvars, lockvars>>
           ELSE IF RowsAffected(v.job, id) <= 0
           THEN \* txn.Rollback(); return err -- which is nil
                /\ RollbackTxn(p)
                /\ UpdateJobReturnsNil(p)
           ELSE /\ WriteTxn(p, [v EXCEPT !.job = UpdateJobRow(v.job, id, clock, proc[p].count)])
                /\ Goto(p, proc[p], "uj_commit")
    /\ UNCHANGED <<clock, hist>>

\* txn.Commit()
UpdateJobCommit(p) ==
    /\ proc[p].pc = "uj_commit"
    /\ IF CanCommit(p)
       THEN /\ CommitTxn(p)
            /\ fulfils' = [fulfils EXCEPT ![proc[p].jobParam] = @ + 1]
            /\ UpdateJobReturnsNil(p)
       ELSE /\ RollbackTxn(p)
            /\ UpdateJobReturnsErr(p, "database is locked")
            /\ UNCHANGED fulfils
    /\ UNCHANGED <<clock, nreq, faults, completed>>

(***************************************************************************)
(* DB.SaveSubmission, called by recvResults (job nil) and recvJobResults   *)
(***************************************************************************)
\* db.Begin(); txn.Exec(INSERT INTO submission ...)
SaveSubmissionExec(p) ==
    /\ proc[p].pc = "ss_exec"
    /\ LET v == View(p)
           jobID == IF proc[p].op = "POST" THEN NullJob ELSE proc[p].jobParam
       IN  IF CanWrite(p)
           THEN /\ WriteTxn(p, [v EXCEPT !.submission =
                                   InsertSubmission(v.submission, "scanner", jobID, proc[p].now)])
                /\ Goto(p, proc[p], "ss_commit")
           ELSE /\ RollbackTxn(p)
                /\ Respond(p, 500, "database is locked")
    /\ UNCHANGED <<clock, hist>>

\* txn.Commit(); the handler then answers 200
SaveSubmissionCommit(p) ==
    /\ proc[p].pc = "ss_commit"
    /\ IF CanCommit(p)
       THEN /\ CommitTxn(p)
            /\ Respond(p, 200, "")
            /\ completed' = IF proc[p].op = "PUT" THEN completed \cup {proc[p].jobParam}
                            ELSE completed
       ELSE /\ RollbackTxn(p)
            /\ Respond(p, 500, "database is locked")
            /\ UNCHANGED completed
    /\ UNCHANGED <<clock, nreq, faults, fulfils>>

(***************************************************************************)
(* POST /job: App.newJob and DB.SaveJob                                    *)
(***************************************************************************)
\* The form of POST /job: r.ParseForm() succeeded or not, f.Get("cidr"),
\* f.Get("ports") and f["proto"], the list of the values of proto.
Form(parsed, cidr, ports, proto) ==
    [parsed |-> parsed, cidr |-> cidr, ports |-> ports, proto |-> proto]

ValidForm == Form(TRUE, "192.0.2.0/24", "80", <<"tcp">>)

Forms ==
    {Form(TRUE, c, q, pr) : c \in {"", "192.0.2.0/24"}, q \in {"", "80"},
                            pr \in {<<>>, <<"">>, <<"tcp">>, <<"TCP", "udp">>}}
        \cup {Form(FALSE, "", "", <<>>)}

\* the checks of newJob on cidr, ports and proto
FormErrors(f) ==
    (IF f.cidr = "" THEN <<"CIDR">> ELSE <<>>)
        \o (IF f.ports = "" THEN <<"Ports">> ELSE <<>>)
        \o (IF Len(f.proto) = 0 THEN <<"Protocol">> ELSE <<>>)

\* strings.ToLower on the protocol names the form can carry
ToLower(str) ==
    CASE str = "TCP" -> "tcp"
      [] str = "UDP" -> "udp"
      [] OTHER -> str

LastInsertIdOne(tbl) == 1

\* res.LastInsertId() after the INSERT: the rowid SQLite gave the new row,
\* one more than the largest rowid of the table (no row of job is deleted)
LastInsertId(tbl) == Len(tbl)

\* SaveJob for the protocol at position i of the form: db.Begin();
\* txn.Exec(INSERT INTO job ...)
SaveJobInsert(p, l, i) ==
    LET v == View(p) IN
    IF CanWrite(p)
    THEN /\ WriteTxn(p, [v EXCEPT !.job = InsertJob(v.job, l.form.cidr, l.form.ports,
                                                    ToLower(l.form.proto[i]),
                                                    "sysadmin@example.com", clock)])
         /\ Goto(p, [l EXCEPT !.idx = i], "sj_commit")
    ELSE /\ RollbackTxn(p)
         /\ proc' = [proc EXCEPT ![p] = [Idle EXCEPT !.pc = "done", !.op = "JOB", !.idx = i,
                        !.status = 500, !.msg = "database is locked"]]

\* POST /job with a form of F, while fewer than cap jobs are stored:
\* r.ParseForm(), the checks on the form and, for a complete form, SaveJob
\* for its first protocol.  An incomplete form renders the page with the
\* names of the missing fields.
NewJobPost(p, F, cap) ==
    /\ Free(p)
    /\ nreq < MaxReqs
    /\ nreq' = nreq + 1
    /\ \E f \in F :
        LET l == [Idle EXCEPT !.op = "JOB", !.form = f] IN
        IF ~f.parsed
        THEN /\ proc' = [proc EXCEPT ![p] = [Idle EXCEPT !.pc = "done", !.op = "JOB",
                            !.status = 400]]
             /\ UNCHANGED <<dbvars, lockvars>>
        ELSE IF FormErrors(f) # <<>>
        THEN /\ proc' = [proc EXCEPT ![p] = [Idle EXCEPT !.pc = "done", !.op = "JOB",
                            !.status = 200, !.errors = FormErrors(f)]]
             /\ UNCHANGED <<dbvars, lockvars>>
        ELSE /\ Len(job) + Len(f.proto) <= cap
             /\ SaveJobInsert(p, l, 1)
    /\ UNCHANGED <<clock, faults, completed, fulfils>>

\* POST /job with the form cidr=192.0.2.0/24, ports=80, proto=tcp
NewJob(p) == NewJobPost(p, {ValidForm}, MaxJobs)

\* SaveJob for the next protocol of the form
SaveJobExec(p) ==
    /\ proc[p].pc = "sj_exec"
    /\ SaveJobInsert(p, proc[p], proc[p].idx)
    /\ UNCHANGED <<clock, hist>>

\* txn.Commit(); return id, nil; newJob appends the id to jobID and goes on
\* with the next protocol, or answers with the page
SaveJobCommit(p) ==
    /\ proc[p].pc = "sj_commit"
    /\ IF CanCommit(p)
       THEN LET ids == Append(proc[p].jobID, LastInsertId(View(p).job)) IN
            /\ CommitTxn(p)
            /\ IF proc[p].idx < Len(proc[p].form.proto)
               THEN Goto(p, [proc[p] EXCEPT !.jobID = ids, !.idx = @ + 1], "sj_exec")
               ELSE proc' = [proc EXCEPT ![p] = [Idle EXCEPT !.pc = "done", !.op = "JOB",
                                !.idx = proc[p].idx, !.status = 200, !.jobID = ids]]
       ELSE /\ RollbackTxn(p)
            /\ Respond(p, 500, "database is locked")
    /\ UNCHANGED <<clock, hist>>

(***************************************************************************)
(* GET /jobs: App.jobs and DB.LoadJobs                                     *)
(***************************************************************************)
\* the WHERE clause of App.jobs
WhereReceivedNull == "received IS NULL"

JobMatchesAll(row, where) == TRUE

JobMatches(row, where) ==
    CASE where = WhereReceivedNull -> row.received = ZeroTime
      [] OTHER -> TRUE

\* scan.Job: the row of table job with its rowid
JobOf(tbl, i) ==
    [id |-> i, cidr |-> tbl[i].cidr, ports |-> tbl[i].ports, proto |-> tbl[i].proto,
     requested_by |-> tbl[i].requested_by, submitted |-> tbl[i].submitted,
     received |-> tbl[i].received, count |-> tbl[i].count]

\* ORDER BY received DESC, submitted, rowid (NULL sorts below every time)
JobBefore(a, b) ==
    \/ a.received > b.received
    \/ a.received = b.received /\ a.submitted < b.submitted
    \/ a.received = b.received /\ a.submitted = b.submitted /\ a.id < b.id

RECURSIVE InsertJobOrdered(_, _)
InsertJobOrdered(sorted, j) ==
    IF sorted = <<>> THEN <<j>>
    ELSE IF JobBefore(j, Head(sorted)) THEN <<j>> \o sorted
    ELSE <<Head(sorted)>> \o InsertJobOrdered(Tail(sorted), j)

RECURSIVE LoadJobsFrom(_, _, _)
LoadJobsFrom(tbl, where, i) ==
    IF i > Len(tbl) THEN <<>>
    ELSE IF JobMatches(tbl[i], where)
         THEN InsertJobOrdered(LoadJobsFrom(tbl, where, i + 1), JobOf(tbl, i))
         ELSE LoadJobsFrom(tbl, where, i + 1)

\* SELECT rowid, cidr, ... FROM job <where> ORDER BY received DESC, submitted, rowid
LoadJobs(tbl, where) == LoadJobsFrom(tbl, where, 1)

\* GET /jobs: LoadJobs(received IS NULL), rendered as JSON
Jobs(p) ==
    /\ Free(p)
    /\ proc' = [proc EXCEPT ![p] = [Idle EXCEPT !.pc = "done", !.op = "GETJOBS",
                    !.status = 200, !.jobs = LoadJobs(View(p).job, WhereReceivedNull)]]
    /\ UNCHANGED <<clock, dbvars, lockvars, hist>>

(***************************************************************************)
(* GET /: App.index, and GET /job: App.newJob without a form.  Both call   *)
(* DB.ResultData, which calls DB.LoadData.  Each SELECT is one step: it    *)
(* reads the committed database.                                           *)
(***************************************************************************)
\* session.Values["user"]: absent, or the user the OAuth callback stored after
\* finding the email on the allow-list
NoUser == ""
Operator == "sysadmin@example.com"
Sessions == {NoUser, Operator}

\* GET / arrives in a session of S.  With authentication enabled, a request
\* whose session has no user gets the index page without data, with status
\* 401 when the session carries the unauth_flash message.
IndexAs(p, S) ==
    /\ Free(p)
    /\ \E u \in S, flash \in BOOLEAN :
        IF u = NoUser
        THEN proc' = [proc EXCEPT ![p] = [Idle EXCEPT !.pc = "done", !.op = "GET",
                         !.status = IF flash THEN 401 ELSE 200]]
        ELSE Goto(p, [Idle EXCEPT !.op = "GET", !.user = u], "ld_sub")
    /\ UNCHANGED <<clock, dbvars, lockvars, hist>>

\* GET / in the session of an authorised user
Index(p) == IndexAs(p, {Operator})

\* for _, r := range data { ips = append(ips, r.IP) }
IPsOf(results) == [i \in DOMAIN results |-> results[i].ip]

\* GET /ips.json arrives in any session: loadData with no filter, rendered as
\* the JSON list of the IP of every row.  The handler does not look at the
\* session.
IpsJSON(p) ==
    /\ Free(p)
    /\ \E u \in Sessions :
        LET v == View(p)
            results == LoadData(SelectScan(v.scan, NoFilter),
                                LoadSubmission(v.submission, WhereNullJob).time)
        IN  proc' = [proc EXCEPT ![p] = [Idle EXCEPT !.pc = "done", !.op = "GETIPS",
                        !.user = u, !.status = 200, !.ips = IPsOf(results)]]
    /\ UNCHANGED <<clock, dbvars, lockvars, hist>>

\* the request arrives; LoadJobs(no filter) for the job table of the page
JobPage(p) ==
    /\ Free(p)
    /\ Goto(p, [Idle EXCEPT !.op = "GETJOB"], "jp_sub")
    /\ UNCHANGED <<clock, dbvars, lockvars, hist>>

\* sub, err := app.db.LoadJobSubmission(); then ResultData("", "", "")
JobPageSubmission(p) ==
    /\ proc[p].pc = "jp_sub"
    /\ Goto(p, [proc[p] EXCEPT !.sub = LoadSubmission(View(p).submission, WhereNotNullJob)],
            "ld_sub")
    /\ UNCHANGED <<clock, dbvars, lockvars, hist>>

\* LoadData: db.Query prepares the SELECT on scan without running it;
\* LoadSubmission(job_id IS NULL) gives the first value of latest
LoadDataSubmission(p) ==
    /\ proc[p].pc = "ld_sub"
    /\ Goto(p, [proc[p] EXCEPT !.latest = LoadSubmission(View(p).submission, WhereNullJob).time],
            "ld_rows")
    /\ UNCHANGED <<clock, dbvars, lockvars, hist>>

\* LoadData's rows.Next() loop over one snapshot of scan, and the counts of
\* ResultData.  The query parameters of GET / are first used by this SELECT;
\* GET /job passes none and then renders its page.
LoadDataRows(p) ==
    /\ proc[p].pc = "ld_rows"
    /\ \E f \in IF proc[p].op = "GET" THEN Queries ELSE {NoFilter} :
        LET results == LoadData(SelectScan(View(p).scan, f), proc[p].latest)
            l == [proc[p] EXCEPT !.filter = f, !.data = ResultData(results)]
        IN  IF proc[p].op = "GET"
            THEN Goto(p, l, "ix_sub")
            ELSE Respond(p, 200, "")
    /\ UNCHANGED <<clock, dbvars, lockvars, hist>>

\* sub, err := app.db.LoadSubmission(sqlite.SQLFilter{}); the page is rendered
IndexSubmission(p) ==
    /\ proc[p].pc = "ix_sub"
    /\ proc' = [proc EXCEPT ![p] = [Idle EXCEPT !.pc = "done", !.op = "GET", !.status = 200,
                    !.sub = LoadSubmission(View(p).submission, WhereAll)]]
    /\ UNCHANGED <<clock, dbvars, lockvars, hist>>

\* the handler returns; the goroutine serves the next request.  A connection
\* on which a panic left a transaction open does not return to the pool.
Finish(p) ==
    /\ proc[p].pc \in {"done", "panic"}
    /\ proc[p].pc = "panic" => p \notin shared /\ reserved # p
    /\ proc' = [proc EXCEPT ![p] = Idle]
    /\ UNCHANGED <<clock, dbvars, lockvars, hist>>

Next ==
    \/ Tick
    \/ \E p \in Procs : RecvResults(p)
    \/ \E p \in Procs : RecvJobResults(p)
    \/ \E p \in Procs : RecvJobResultsNow(p)
    \/ \E p \in Procs : SaveDataNext(p)
    \/ \E p \in Procs : SaveDataWrite(p)
    \/ \E p \in Procs : SaveDataFault(p)
    \/ \E p \in Procs : SaveDataCommit(p)
    \/ \E p \in Procs : UpdateJobExec(p)
    \/ \E p \in Procs : UpdateJobCommit(p)
    \/ \E p \in Procs : SaveSubmissionExec(p)
    \/ \E p \in Procs : SaveSubmissionCommit(p)
    \/ \E p \in Procs : NewJob(p)
    \/ \E p \in Procs : SaveJobCommit(p)
    \/ \E p \in Procs : Finish(p)

Spec == Init /\ [][Next]_vars

(***************************************************************************)
(* The pages read while results arrive: one scanner or administrator       *)
(* writes at a time, one browser reads at a time, over a longer stretch of *)
(* time.  A read request runs concurrently with a write request.           *)
(***************************************************************************)
Writing(p) == proc[p].op \in {"POST", "PUT", "JOB"} /\ proc[p].pc \notin {"idle", "done", "panic"}
Reading(p) == proc[p].op \in {"GET", "GETJOB"} /\ proc[p].pc \notin {"idle", "done"}
NoWriter == \A q \in Procs : ~Writing(q)
NoReader == \A q \in Procs : ~Reading(q)

ReadNext ==
    \/ TickTo(ReadDelay + MaxReadTicks)
    \/ \E p \in Procs : NoWriter /\ RecvResults(p)
    \/ \E p \in Procs : NoWriter /\ RecvJobResults(p)
    \/ \E p \in Procs : NoWriter /\ NewJob(p)
    \/ \E p \in Procs : NoReader /\ Index(p)
    \/ \E p \in Procs : NoReader /\ JobPage(p)
    \/ \E p \in Procs : RecvJobResultsNow(p)
    \/ \E p \in Procs : SaveDataNext(p)
    \/ \E p \in Procs : SaveDataWrite(p)
    \/ \E p \in Procs : SaveDataFault(p)
    \/ \E p \in Procs : SaveDataCommit(p)
    \/ \E p \in Procs : UpdateJobExec(p)
    \/ \E p \in Procs : UpdateJobCommit(p)
    \/ \E p \in Procs : SaveSubmissionExec(p)
    \/ \E p \in Procs : SaveSubmissionCommit(p)
    \/ \E p \in Procs : SaveJobCommit(p)
    \/ \E p \in Procs : JobPageSubmission(p)
    \/ \E p \in Procs : LoadDataSubmission(p)
    \/ \E p \in Procs : LoadDataRows(p)
    \/ \E p \in Procs : IndexSubmission(p)
    \/ \E p \in Procs : Finish(p)

\* the server starts between two second boundaries
ReadInit == InitAt(TicksPerSec + ReadDelay)

ReadSpec == ReadInit /\ [][ReadNext]_vars

(***************************************************************************)
(* The server after a first sweep: POST /results with the one record       *)
(* 192.0.2.3:80/tcp open arrived in the first second, and SweptDelay ticks *)
(* have passed.  From there one request is served at a time.               *)
(***************************************************************************)
SweptTables ==
    [scan |-> InsertRow(<<>>, Rec("192.0.2.3", "open", "", ""), Truncate(TicksPerSec)),
     job |-> <<>>,
     submission |-> InsertSubmission(<<>>, "scanner", NullJob, Truncate(TicksPerSec)),
     users |-> <<>>,
     traceroute |-> <<>>]

SweptInit ==
    /\ clock = TicksPerSec + SweptDelay
    /\ scan = SweptTables.scan
    /\ job = SweptTables.job
    /\ submission = SweptTables.submission
    /\ users = SweptTables.users
    /\ traceroute = SweptTables.traceroute
    /\ shared = {}
    /\ reserved = NoProc
    /\ work = SweptTables
    /\ proc = [p \in Procs |-> Idle]
    /\ nreq = 0
    /\ faults = 0
    /\ completed = {}
    /\ fulfils = [j \in JobIDs |-> 0]

Alone == NoWriter /\ NoReader

SweptNext ==
    \/ TickTo(SweptDelay + MaxSweptTicks)
    \/ \E p \in Procs : Alone /\ RecvResults(p)
    \/ \E p \in Procs : Alone /\ RecvJobResults(p)
    \/ \E p \in Procs : Alone /\ NewJob(p)
    \/ \E p \in Procs : Alone /\ Index(p)
    \/ \E p \in Procs : RecvJobResultsNow(p)
    \/ \E p \in Procs : SaveDataNext(p)
    \/ \E p \in Procs : SaveDataWrite(p)
    \/ \E p \in Procs : SaveDataFault(p)
    \/ \E p \in Procs : SaveDataCommit(p)
    \/ \E p \in Procs : UpdateJobExec(p)
    \/ \E p \in Procs : UpdateJobCommit(p)
    \/ \E p \in Procs : SaveSubmissionExec(p)
    \/ \E p \in Procs : SaveSubmissionCommit(p)
    \/ \E p \in Procs : SaveJobCommit(p)
    \/ \E p \in Procs : LoadDataSubmission(p)
    \/ \E p \in Procs : LoadDataRows(p)
    \/ \E p \in Procs : IndexSubmission(p)
    \/ \E p \in Procs : Finish(p)

SweptSpec == SweptInit /\ [][SweptNext]_vars

(***************************************************************************)
(* The job service: operators post job forms, scanning agents poll         *)
(* GET /jobs and fulfil job 1 with PUT /results/1.  Requests run           *)
(* concurrently.                                                           *)
(***************************************************************************)
JobNext ==
    \/ Tick
    \/ \E p \in Procs : NewJobPost(p, Forms, MaxFormJobs)
    \/ \E p \in Procs : SaveJobExec(p)
    \/ \E p \in Procs : SaveJobCommit(p)
    \/ \E p \in Procs : Jobs(p)
    \/ \E p \in Procs : RecvJobResults(p)
    \/ \E p \in Procs : RecvJobResultsNow(p)
    \/ \E p \in Procs : SaveDataNext(p)
    \/ \E p \in Procs : SaveDataWrite(p)
    \/ \E p \in Procs : SaveDataFault(p)
    \/ \E p \in Procs : SaveDataCommit(p)
    \/ \E p \in Procs : UpdateJobExec(p)
    \/ \E p \in Procs : UpdateJobCommit(p)
    \/ \E p \in Procs : SaveSubmissionExec(p)
    \/ \E p \in Procs : SaveSubmissionCommit(p)
    \/ \E p \in Procs : Finish(p)

JobSpec == Init /\ [][JobNext]_vars

(***************************************************************************)
(* Ingestion of requests that can be malformed: a wrong Content-Type, a    *)
(* body that does not decode, records without ports.                       *)
(***************************************************************************)
PayloadNext ==
    \/ Tick
    \/ \E p \in Procs : RecvResultsOf(p, PortlessBatches, Payloads)
    \/ \E p \in Procs : RecvJobResultsOf(p, PortlessBatches)
    \/ \E p \in Procs : RecvJobResultsNowOf(p, Payloads)
    \/ \E p \in Procs : SaveDataNext(p)
    \/ \E p \in Procs : SaveDataWrite(p)
    \/ \E p \in Procs : SaveDataFault(p)
    \/ \E p \in Procs : SaveDataCommit(p)
    \/ \E p \in Procs : UpdateJobExec(p)
    \/ \E p \in Procs : UpdateJobCommit(p)
    \/ \E p \in Procs : SaveSubmissionExec(p)
    \/ \E p \in Procs : SaveSubmissionCommit(p)
    \/ \E p \in Procs : NewJob(p)
    \/ \E p \in Procs : SaveJobCommit(p)
    \/ \E p \in Procs : Finish(p)

PayloadSpec == Init /\ [][PayloadNext]_vars

(***************************************************************************)
(* The pages with authentication enabled: GET / and GET /ips.json arrive   *)
(* with and without a user in the session while scanners post results.    *)
(***************************************************************************)
AuthNext ==
    \/ Tick
    \/ \E p \in Procs : NoWriter /\ RecvResults(p)
    \/ \E p \in Procs : NoReader /\ IndexAs(p, Sessions)
    \/ \E p \in Procs : IpsJSON(p)
    \/ \E p \in Procs : SaveDataNext(p)
    \/ \E p \in Procs : SaveDataWrite(p)
    \/ \E p \in Procs : SaveDataFault(p)
    \/ \E p \in Procs : SaveDataCommit(p)
    \/ \E p \in Procs : SaveSubmissionExec(p)
    \/ \E p \in Procs : SaveSubmissionCommit(p)
    \/ \E p \in Procs : LoadDataSubmission(p)
    \/ \E p \in Procs : LoadDataRows(p)
    \/ \E p \in Procs : IndexSubmission(p)
    \/ \E p \in Procs : Finish(p)

AuthSpec == Init /\ [][AuthNext]_vars

(***************************************************************************)
(* POST /admin: App.adminHandler, App.adminFormProcess and the users table. *)
(* The audit table that app.audit writes after each change is not part of  *)
(* the state.                                                              *)
(***************************************************************************)
Alice == "alice@example.com"

\* the emails a form can name, in the order of ORDER BY email
Emails == <<Alice, Operator>>

Range(s) == {s[i] : i \in DOMAIN s}

\* r.Form of POST /admin: the fields add_email and delete_email
AdminForms ==
    [add_email : {""} \cup Range(Emails), delete_email : {""} \cup Range(Emails)]

userExists == "User already exists"
selfDeletion == "You can't delete yourself"

EmailBefore(a, b) ==
    \E i, j \in DOMAIN Emails : Emails[i] = a /\ Emails[j] = b /\ i < j

RECURSIVE InsertEmailOrdered(_, _)
InsertEmailOrdered(sorted, e) ==
    IF sorted = <<>> THEN <<e>>
    ELSE IF EmailBefore(e, Head(sorted)) THEN <<e>> \o sorted
    ELSE <<Head(sorted)>> \o InsertEmailOrdered(Tail(sorted), e)

RECURSIVE LoadUsersFrom(_, _)
LoadUsersFrom(tbl, i) ==
    IF i > Len(tbl) THEN <<>>
    ELSE InsertEmailOrdered(LoadUsersFrom(tbl, i + 1), tbl[i])

\* SELECT * FROM users ORDER BY email
LoadUsers(tbl) == LoadUsersFrom(tbl, 1)

\* for _, u := range users { if u == add { return errUserExists } }
Listed(list, add) == \E i \in DOMAIN list : list[i] = add

\* users_migrate (email text UNIQUE NOT NULL): the INSERT fails when the
\* table holds the email
UniqueViolation(tbl, email) == \E i \in DOMAIN tbl : tbl[i] = email

\* INSERT INTO users (email) VALUES (?)
InsertUser(tbl, email) == Append(tbl, email)

\* DELETE FROM users WHERE email = ?
DeleteUserRows(tbl, email) == SelectSeq(tbl, LAMBDA e : e # email)

\* POST /admin from the session of a listed user: LoadUsers, r.ParseForm().
AdminPost(p) ==
    /\ Free(p)
    /\ nreq < MaxReqs
    /\ nreq' = nreq + 1
    /\ \E u \in Range(users), f \in AdminForms :
        Goto(p, [Idle EXCEPT !.op = "POSTADMIN", !.user = u, !.admin = f,
                             !.userList = LoadUsers(View(p).users)], "af_add")
    /\ UNCHANGED <<clock, dbvars, lockvars, faults, completed, fulfils>>

\* adminFormProcess, the add_email branch: the check against the loaded
\* users, then SaveUser's Begin and INSERT.
AdminFormAdd(p) ==
    /\ proc[p].pc = "af_add"
    /\ LET l == proc[p]
           add == l.admin.add_email
       IN  IF add = ""
           THEN /\ Goto(p, l, "af_delete")
                /\ UNCHANGED <<dbvars, lockvars>>
           ELSE IF Listed(l.userList, add)
           THEN /\ Respond(p, 400, userExists)
                /\ UNCHANGED <<dbvars, lockvars>>
           ELSE IF ~CanWrite(p)
           THEN /\ RollbackTxn(p)
                /\ Respond(p, 500, "database is locked")
           ELSE IF UniqueViolation(View(p).users, add)
           THEN /\ RollbackTxn(p)
                /\ Respond(p, 500, "UNIQUE constraint failed: users.email")
           ELSE /\ WriteTxn(p, [View(p) EXCEPT !.users = InsertUser(@, add)])
                /\ Goto(p, l, "su_commit")
    /\ UNCHANGED <<clock, hist>>

\* SaveUser: txn.Commit()
SaveUserCommit(p) ==
    /\ proc[p].pc = "su_commit"
    /\ IF CanCommit(p)
       THEN /\ CommitTxn(p)
            /\ Goto(p, proc[p], "af_delete")
       ELSE /\ RollbackTxn(p)
            /\ Respond(p, 500, "database is locked")
    /\ UNCHANGED <<clock, hist>>

\* adminFormProcess, the delete_email branch: the check against the
\* session's user, then DeleteUser's Begin and DELETE.  Without a
\* delete_email the handler reloads the users and renders the page.
AdminFormDelete(p) ==
    /\ proc[p].pc = "af_delete"
    /\ LET l == proc[p]
           delete == l.admin.delete_email
       IN  IF delete = ""
           THEN /\ Respond(p, 200, "")
                /\ UNCHANGED <<dbvars, lockvars>>
           ELSE IF l.user = delete
           THEN /\ Respond(p, 400, selfDeletion)
                /\ UNCHANGED <<dbvars, lockvars>>
           ELSE IF ~CanWrite(p)
           THEN /\ RollbackTxn(p)
                /\ Respond(p, 500, "database is locked")
           ELSE /\ WriteTxn(p, [View(p) EXCEPT !.users = DeleteUserRows(@, delete)])
                /\ Goto(p, l, "du_commit")
    /\ UNCHANGED <<clock, hist>>

\* DeleteUser: txn.Commit()
DeleteUserCommit(p) ==
    /\ proc[p].pc = "du_commit"
    /\ IF CanCommit(p)
       THEN /\ CommitTxn(p)
            /\ Respond(p, 200, "")
       ELSE /\ RollbackTxn(p)
            /\ Respond(p, 500, "database is locked")
    /\ UNCHANGED <<clock, hist>>

\* The server with one user on the allow-list, as the README's INSERT
\* leaves it.
AdminInit ==
    /\ clock = TicksPerSec
    /\ scan = <<>>
    /\ job = <<>>
    /\ submission = <<>>
    /\ users = <<Operator>>
    /\ traceroute = <<>>
    /\ shared = {}
    /\ reserved = NoProc
    /\ work = [scan |-> <<>>, job |-> <<>>, submission |-> <<>>, users |-> <<Operator>>,
               traceroute |-> <<>>]
    /\ proc = [p \in Procs |-> Idle]
    /\ nreq = 0
    /\ faults = 0
    /\ completed = {}
    /\ fulfils = [j \in JobIDs |-> 0]

AdminNext ==
    \/ \E p \in Procs : AdminPost(p)
    \/ \E p \in Procs : AdminFormAdd(p)
    \/ \E p \in Procs : SaveUserCommit(p)
    \/ \E p \in Procs : AdminFormDelete(p)
    \/ \E p \in Procs : DeleteUserCommit(p)
    \/ \E p \in Procs : Finish(p)

AdminSpec == AdminInit /\ [][AdminNext]_vars

(***************************************************************************)
(* POST /traceroute and GET /traceroute/{ip}: App.recvTraceroute,           *)
(* App.traceroute, DB.SaveTraceroute and DB.LoadTraceroute.                *)
(***************************************************************************)
\* the bodies a scanner uploads as the file "traceroute"
Traces == {"1  router.internal (192.168.0.1)", "1  server.example.com (192.0.2.1)"}

\* the multipart form of POST /traceroute: the value dest and the file
\* traceroute, which can be missing
NoFile == "http: no such file"
TraceForms == [dest : IPs, file : Traces \cup {NoFile}]

TracerouteNotFound == "Traceroute not found"

InsertTraceroute(tbl, dest, path) == Append(tbl, [dest |-> dest, path |-> path])

\* INSERT OR REPLACE INTO traceroute (dest, path) VALUES (?, ?), dest being
\* UNIQUE: the row that holds dest is deleted and the new row inserted
InsertOrReplaceTraceroute(tbl, dest, path) ==
    Append(SelectSeq(tbl, LAMBDA row : row.dest # dest), [dest |-> dest, path |-> path])

\* SELECT path FROM traceroute WHERE dest = ?, QueryRow: the rows found
TracerouteRows(tbl, dest) == SelectSeq(tbl, LAMBDA row : row.dest = dest)

\* POST /traceroute: r.FormValue, r.FormFile, then SaveTraceroute's Begin
\* and INSERT OR REPLACE.
RecvTraceroute(p) ==
    /\ Free(p)
    /\ nreq < MaxReqs
    /\ nreq' = nreq + 1
    /\ \E f \in TraceForms :
        LET l == [Idle EXCEPT !.op = "POSTTRACE", !.dest = f.dest, !.trace = f.file] IN
        IF f.file = NoFile
        THEN /\ proc' = [proc EXCEPT ![p] = [l EXCEPT !.pc = "done", !.status = 500,
                                                      !.msg = NoFile]]
             /\ UNCHANGED <<dbvars, lockvars>>
        ELSE IF ~CanWrite(p)
        THEN /\ RollbackTxn(p)
             /\ proc' = [proc EXCEPT ![p] = [l EXCEPT !.pc = "done", !.status = 500,
                                                      !.msg = "database is locked"]]
        ELSE /\ WriteTxn(p, [View(p) EXCEPT
                               !.traceroute = InsertOrReplaceTraceroute(@, f.dest, f.file)])
             /\ Goto(p, l, "st_commit")
    /\ UNCHANGED <<clock, faults, completed, fulfils>>

\* SaveTraceroute: txn.Commit(); the handler answers 201 Created.
SaveTracerouteCommit(p) ==
    /\ proc[p].pc = "st_commit"
    /\ IF CanCommit(p)
       THEN /\ CommitTxn(p)
            /\ proc' = [proc EXCEPT ![p] = [@ EXCEPT !.pc = "done", !.status = 201]]
       ELSE /\ RollbackTxn(p)
            /\ proc' = [proc EXCEPT ![p] = [@ EXCEPT !.pc = "done", !.status = 500,
                                                     !.msg = "database is locked"]]
    /\ UNCHANGED <<clock, hist>>

\* GET /traceroute/{ip}: LoadTraceroute, then 404 on sql.ErrNoRows or the
\* path as the body.
Traceroute(p) ==
    /\ Free(p)
    /\ nreq < MaxReqs
    /\ nreq' = nreq + 1
    /\ \E ip \in IPs :
        LET l == [Idle EXCEPT !.op = "GETTRACE", !.dest = ip]
            rows == TracerouteRows(View(p).traceroute, ip)
        IN  IF rows = <<>>
            THEN proc' = [proc EXCEPT ![p] = [l EXCEPT !.pc = "done", !.status = 404,
                                                       !.msg = TracerouteNotFound]]
            ELSE proc' = [proc EXCEPT ![p] = [l EXCEPT !.pc = "done", !.status = 200,
                                                       !.msg = rows[1].path]]
    /\ UNCHANGED <<clock, dbvars, lockvars, faults, completed, fulfils>>

TraceNext ==
    \/ \E p \in Procs : RecvTraceroute(p)
    \/ \E p \in Procs : SaveTracerouteCommit(p)
    \/ \E p \in Procs : Traceroute(p)
    \/ \E p \in Procs : Finish(p)

TraceSpec == Init /\ [][TraceNext]_vars

(***************************************************************************)
(* POST /results alone: scanners post batches about one key from two       *)
(* connections while the clock passes from one second into the next.       *)
(***************************************************************************)
IngestNext ==
    \/ TickTo(IngestTicks)
    \/ \E p \in Procs : RecvResultsOf(p, IngestBatches, {WellFormed})
    \/ \E p \in Procs : SaveDataNext(p)
    \/ \E p \in Procs : SaveDataWrite(p)
    \/ \E p \in Procs : SaveDataFault(p)
    \/ \E p \in Procs : SaveDataCommit(p)
    \/ \E p \in Procs : SaveSubmissionExec(p)
    \/ \E p \in Procs : SaveSubmissionCommit(p)
    \/ \E p \in Procs : Finish(p)

IngestSpec == Init /\ [][IngestNext]_vars

(***************************************************************************)
(* The store called directly, as TestUpdateJob does: DB.SaveJob through    *)
(* POST /job, and DB.UpdateJob with an id that a job has or not.           *)
(***************************************************************************)
\* the counts a caller passes
Counts == {0, 999}

\* db.UpdateJob(id, count)
UpdateJobCall(p) ==
    /\ Free(p)
    /\ nreq < MaxReqs
    /\ nreq' = nreq + 1
    /\ \E id \in JobIDs, c \in Counts :
        Goto(p, [Idle EXCEPT !.op = "UpdateJob", !.jobParam = id, !.count = c], "uj_exec")
    /\ UNCHANGED <<clock, dbvars, lockvars, faults, completed, fulfils>>

StoreNext ==
    \/ Tick
    \/ \E p \in Procs : NewJob(p)
    \/ \E p \in Procs : SaveJobCommit(p)
    \/ \E p \in Procs : UpdateJobCall(p)
    \/ \E p \in Procs : UpdateJobExec(p)
    \/ \E p \in Procs : UpdateJobCommit(p)
    \/ \E p \in Procs : Finish(p)

StoreSpec == Init /\ [][StoreNext]_vars

TypeOK ==
    /\ reserved \in Procs \cup {NoProc}
    /\ shared \subseteq Procs
    /\ reserved # NoProc => reserved \in shared
    /\ reserved = NoProc => work = Tables


(***************************************************************************)
(* Properties.                                                             *)
(***************************************************************************)
\* p's SaveData commits in this step: the tables before it are those its
\* SELECTs read, the tables after it hold its batch.
SaveDataCommits(p) ==
    /\ proc[p].pc = "sd_loop"
    /\ proc'[p].pc \in {"ss_exec", "uj_exec"}
    /\ proc'[p].commitOK

\* p is past a SaveData that returned a count and no error.
SaveDataReturned(p) == proc[p].pc \in {"ss_exec", "uj_exec", "uj_commit", "ss_commit"}

\* the records the specification calls skipped
Skipped(r) == r.status = "" \/ r.name # ""

NonSkipped(b) == {i \in DOMAIN b : ~Skipped(b[i])}

KeyOf(r) == <<r.ip, r.port, r.proto>>

\* p starts serving PUT /results/{id} in this step
StartsPut(p) == proc[p].pc = "idle" /\ proc'[p].op = "PUT"

\* p, serving an accepted PUT /results/{id}, ends in this step while no other
\* connection holds a lock and no storage fault occurs
EndsPutUndisturbed(p) ==
    /\ proc[p].op = "PUT"
    /\ proc[p].pc \notin {"idle", "done", "panic"}
    /\ proc'[p].pc \in {"done", "panic"}
    /\ shared \ {p} = {}
    /\ reserved \in {NoProc, p}
    /\ faults' = faults

\* C1: a fulfilment of a pending job is accepted and, undisturbed by other
\* requests and storage faults, answers 200; a fulfilment issued after a
\* fulfilment of the same job has answered 200 is rejected with 400 "Job
\* already submitted" and changes no table, so count and received stay as set;
\* and a job whose fulfilment answered 200 has received set.
C1_SecondFulfilmentRejected ==
    [][/\ \A p \in Procs : EndsPutUndisturbed(p) => proc'[p].status = 200
       /\ \A p \in Procs :
            StartsPut(p) =>
                LET id == proc'[p].jobParam IN
                /\ id \in completed =>
                      /\ proc'[p].pc = "done"
                      /\ proc'[p].status = 400
                      /\ proc'[p].msg = "Job already submitted"
                      /\ job' = job /\ scan' = scan /\ submission' = submission
                /\ (id \in DOMAIN job /\ job[id].received = ZeroTime) =>
                      proc'[p].pc = "jr_now"
       /\ \A id \in completed' : job'[id].received # ZeroTime]_vars

C1_Witness ==
    \E p \in Procs :
        /\ proc[p].op = "PUT"
        /\ proc[p].status = 400
        /\ proc[p].msg = "Job already submitted"
        /\ proc[p].jobParam \in completed
        /\ fulfils[proc[p].jobParam] = 1

\* C2: the received/count of a job are written by at most one fulfilment
\* request, in every interleaving.
C2_AtMostOneFulfilment == \A id \in JobIDs : fulfils[id] <= 1

\* C3: a job is created with received unset; no step unsets the received of a
\* job and no step removes a job.
C3_JobLifecycle ==
    [][/\ \A id \in DOMAIN job :
            /\ id \in DOMAIN job'
            /\ job[id].received # ZeroTime => job'[id].received # ZeroTime
       /\ \A id \in DOMAIN job' \ DOMAIN job : job'[id].received = ZeroTime]_vars

C3_Witness ==
    \E id \in DOMAIN job : job[id].received # ZeroTime /\ fulfils[id] = 2

\* C4: when SaveData commits, every non-skipped record whose key was absent
\* has a new row with firstseen = lastseen = now, and every row whose key a
\* non-skipped record names has lastseen = now and its firstseen unchanged.
C4_InsertOrTouch ==
    [][\A p \in Procs :
          SaveDataCommits(p) =>
              \A n \in NonSkipped(proc[p].res) :
                  LET r == proc[p].res[n] IN
                  /\ \A i \in DOMAIN scan :
                        SameKey(scan[i], r) =>
                            /\ i \in DOMAIN scan'
                            /\ scan'[i].lastseen = proc[p].now
                            /\ scan'[i].firstseen = scan[i].firstseen
                  /\ (\A i \in DOMAIN scan : ~SameKey(scan[i], r)) =>
                        \E i \in DOMAIN scan' \ DOMAIN scan :
                            /\ SameKey(scan'[i], r)
                            /\ scan'[i].firstseen = proc[p].now
                            /\ scan'[i].lastseen = proc[p].now]_vars

C4_Witness ==
    /\ Len(scan) = 1
    /\ scan[1].firstseen < scan[1].lastseen

\* C5: the scan table holds at most one row per (ip, port, proto).
C5_OneRowPerKey ==
    \A i, j \in DOMAIN scan : KeyOf(scan[i]) = KeyOf(scan[j]) => i = j

\* two concurrent SaveData calls have both read the same key as absent
C5_Witness ==
    \E p, q \in Procs :
        /\ p # q
        /\ proc[p].pc = "sd_write" /\ proc[q].pc = "sd_write"
        /\ ~proc[p].found /\ ~proc[q].found
        /\ KeyOf(proc[p].res[proc[p].idx]) = KeyOf(proc[q].res[proc[q].idx])

\* C6: every row of the scan table has firstseen <= lastseen.
C6_FirstSeenBeforeLastSeen ==
    \A i \in DOMAIN scan : scan[i].firstseen <= scan[i].lastseen

\* C7: no step removes a row of the scan table, changes its key or changes
\* its firstseen.
C7_RowsKeptFirstSeenFixed ==
    [][\A i \in DOMAIN scan :
          /\ i \in DOMAIN scan'
          /\ KeyOf(scan'[i]) = KeyOf(scan[i])
          /\ scan'[i].firstseen = scan[i].firstseen]_vars

C7_Witness ==
    /\ Len(scan) = 2
    /\ \E i \in DOMAIN scan : scan[i].lastseen # scan[i].firstseen

\* C8: a record with an empty status or a non-empty service name is skipped:
\* when SaveData commits, a row whose key only skipped records of the batch
\* name is neither created nor changed, and the count does not exceed the
\* number of the other records.
C8_SkippedRecordsIgnored ==
    [][\A p \in Procs :
          SaveDataCommits(p) =>
              LET b == proc[p].res
                  touched == {KeyOf(b[n]) : n \in NonSkipped(b)}
              IN  /\ \A i \in DOMAIN scan' :
                        KeyOf(scan'[i]) \notin touched =>
                            i \in DOMAIN scan /\ scan'[i] = scan[i]
                  /\ proc'[p].count <= Cardinality(NonSkipped(b))]_vars

\* a committed batch of one stored record and one skipped record of another key
C8_Witness ==
    \E p \in Procs :
        /\ SaveDataReturned(p)
        /\ proc[p].commitOK
        /\ Len(proc[p].res) = 2
        /\ Cardinality(NonSkipped(proc[p].res)) = 1
        /\ \E n \in DOMAIN proc[p].res :
              /\ proc[p].res[n].name # ""
              /\ \A i \in DOMAIN scan : KeyOf(scan[i]) # KeyOf(proc[p].res[n])

\* C9: the count SaveData returns with no error is the number of non-skipped
\* records of the batch.
C9_AffectedCount ==
    \A p \in Procs :
        SaveDataReturned(p) => proc[p].count = Cardinality(NonSkipped(proc[p].res))

\* a batch that names one key twice, the key already stored: count is 2
C9_Witness ==
    \E p \in Procs :
        /\ SaveDataReturned(p)
        /\ proc[p].commitOK
        /\ proc[p].count = 2
        /\ Len(scan) = 1
        /\ scan[1].firstseen # proc[p].now

\* C10: the step in which SaveData returns an error changes no table, and the
\* scan table changes only in the step in which a SaveData commits.
C10_ErrorLeavesStore ==
    [][/\ \A p \in Procs :
            (proc[p].pc \in {"sd_loop", "sd_write"} /\ proc'[p].pc = "done") =>
                scan' = scan /\ job' = job /\ submission' = submission
       /\ scan' # scan => \E p \in Procs : SaveDataCommits(p)]_vars

\* SaveData failed on its second record after writing the first
C10_Witness ==
    \E p \in Procs :
        /\ proc[p].pc = "done"
        /\ proc[p].status = 500
        /\ proc[p].msg = "storage error"
        /\ proc[p].idx = 2
        /\ proc[p].undone = 1

(***************************************************************************)
(* Properties of the pages (checked under ReadSpec).                       *)
(***************************************************************************)
\* p's LoadData reads the rows of scan in this step
ReadsRows(p) == proc[p].pc = "ld_rows" /\ proc'[p].pc \in {"ix_sub", "done"}

\* p, serving GET /, is past ResultData and holds its scan.Data
HoldsData(p) == proc[p].op = "GET" /\ proc[p].pc = "ix_sub"

RowOf(r) == <<r.ip, r.port, r.proto, r.firstseen, r.lastseen>>

\* C11: the rows a query returns are the committed rows that match its
\* filter, whatever a concurrent SaveData has written and not yet committed;
\* and the committed table changes only in the step in which a SaveData
\* commits, which brings in the write of every stored record of its batch.
C11_QuerySeesWholeBatches ==
    [][/\ \A p \in Procs :
            (ReadsRows(p) /\ proc[p].op = "GET") =>
                LET d == proc'[p].data
                    f == proc'[p].filter
                IN  {RowOf(d.results[i]) : i \in DOMAIN d.results}
                        = {RowOf(scan[i]) : i \in {j \in DOMAIN scan : Matches(scan[j], f)}}
       /\ scan' # scan =>
            \E q \in Procs :
                /\ SaveDataCommits(q)
                /\ \A n \in NonSkipped(proc[q].res) :
                      \E i \in DOMAIN scan' :
                          /\ SameKey(scan'[i], proc[q].res[n])
                          /\ scan'[i].lastseen = proc[q].now]_vars

\* a query is about to read the rows while a SaveData has written the first
\* of its two records and not the second
C11_Witness ==
    \E p, q \in Procs :
        /\ proc[p].pc = "ld_rows"
        /\ reserved = q
        /\ proc[q].pc = "sd_loop"
        /\ Len(proc[q].res) = 2
        /\ proc[q].idx = 2
        /\ ~Skip(proc[q].res[2])
        /\ Len(work.scan) > Len(scan)

\* the largest element of a non-empty set of times
MaxTime(S) == CHOOSE t \in S : \A u \in S : u <= t

\* latest as the specification defines it for a result: the larger of the
\* time of the last unscoped submission and the last_seen of every returned row
SpecLatest(sweepTime, results) ==
    MaxTime({sweepTime} \cup {results[i].lastseen : i \in DOMAIN results})

\* C12: every row of a query result is classified against the one value
\* latest = max(sweepTime, max last_seen of the returned rows): Gone is
\* last_seen < latest, New is first_seen = last_seen = latest.
C12_OneLatestPerResult ==
    [][\A p \in Procs :
          (ReadsRows(p) /\ proc[p].op = "GET") =>
              LET rs == proc'[p].data.results
                  latest == SpecLatest(proc[p].latest, rs)
              IN  \A i \in DOMAIN rs :
                      /\ rs[i].gone = (rs[i].lastseen < latest)
                      /\ rs[i].new = (rs[i].firstseen = rs[i].lastseen
                                        /\ rs[i].lastseen = latest)]_vars

\* the keys an unfiltered query classifies Gone when it reads the tables
\* scanTbl and subTbl
GoneKeys(scanTbl, subTbl) ==
    LET rs == LoadData(SelectScan(scanTbl, NoFilter),
                       LoadSubmission(subTbl, WhereNullJob).time)
    IN  {KeyOf(rs[i]) : i \in {j \in DOMAIN rs : rs[j].gone}}

\* C13: the step in which the SaveData of a job-scoped fulfilment commits
\* leaves the Gone classification, by an unfiltered query, of every
\* observation that the fulfilment did not touch as it was.
C13_JobKeepsGoneOfOthers ==
    [][\A q \in Procs :
          (SaveDataCommits(q) /\ proc[q].op = "PUT") =>
              LET b == proc[q].res
                  touched == {KeyOf(b[n]) : n \in NonSkipped(b)}
              IN  \A i \in DOMAIN scan :
                      KeyOf(scan[i]) \notin touched =>
                          (KeyOf(scan[i]) \in GoneKeys(scan, submission)
                              <=> KeyOf(scan[i]) \in GoneKeys(scan', submission'))]_vars

\* p, serving an unfiltered GET /, reads the rows in this step; no ingestion
\* is in progress, none has been recorded since p read the time of the last
\* unscoped submission, and that submission is the last one recorded
ReadsAfterSweep(p) ==
    /\ ReadsRows(p)
    /\ proc[p].op = "GET"
    /\ proc'[p].filter = NoFilter
    /\ NoWriter
    /\ submission # <<>>
    /\ submission[Len(submission)].job_id = NullJob
    /\ submission[Len(submission)].time = proc[p].latest

\* C14: when the last ingestion is an unscoped sweep recorded at T2 and some
\* key A was last seen at T1 < T2, a query made then shows every row last seen
\* before T2 (A among them) with Gone = true and every row the sweep
\* refreshed (last seen at T2) with Gone = false.
C14_GoneAfterLaterSweep ==
    [][\A p \in Procs :
          ReadsAfterSweep(p) =>
              LET T2 == proc[p].latest
                  rs == proc'[p].data.results
              IN  (\E a \in DOMAIN rs : rs[a].lastseen < T2) =>
                      \A i \in DOMAIN rs :
                          /\ rs[i].lastseen < T2 => rs[i].gone
                          /\ rs[i].lastseen = T2 => ~rs[i].gone]_vars

\* the store holds what one ingestion of one stored record leaves on a fresh
\* store, and no request is writing
OneRecordIngested ==
    /\ NoWriter
    /\ nreq - Len(job) = 1
    /\ Len(scan) = 1

\* C15: an unfiltered query on a store that one ingestion of one open-port
\* record has filled returns exactly one row, with New = true, Gone = false
\* and first_seen = last_seen; and no query ever returns a row with
\* first_seen < last_seen as New.
C15_NewClassification ==
    [][\A p \in Procs :
          (ReadsRows(p) /\ proc[p].op = "GET") =>
              LET rs == proc'[p].data.results IN
              /\ (OneRecordIngested /\ proc'[p].filter = NoFilter) =>
                      /\ Len(rs) = 1
                      /\ rs[1].new
                      /\ ~rs[1].gone
                      /\ rs[1].firstseen = rs[1].lastseen
              /\ \A i \in DOMAIN rs : rs[i].firstseen < rs[i].lastseen => ~rs[i].new]_vars

\* the query right after the first ingestion, of 192.0.2.1:80/tcp open
C15_Witness ==
    \E p \in Procs :
        /\ HoldsData(p)
        /\ OneRecordIngested
        /\ proc[p].filter = NoFilter
        /\ proc[p].data.total = 1
        /\ proc[p].data.new = 1
        /\ proc[p].data.results[1].ip = "192.0.2.1"
        /\ submission # <<>>
        /\ proc[p].latest = submission[1].time

\* a query has returned a row that was seen at two different times
C15_TouchedRowReturned ==
    \E p \in Procs :
        /\ HoldsData(p)
        /\ \E i \in DOMAIN proc[p].data.results :
              /\ proc[p].data.results[i].firstseen < proc[p].data.results[i].lastseen
              /\ ~proc[p].data.results[i].gone

\* C16: in every ResultData result Total is the number of rows, New the
\* number of rows with New = true and Latest the number of rows with
\* Gone = false; no row is both New and Gone, and 0 <= New <= Latest <= Total.
C16_Counts ==
    [][\A p \in Procs :
          (ReadsRows(p) /\ proc[p].op = "GET") =>
              LET d == proc'[p].data
                  rs == d.results
              IN  /\ d.total = Len(rs)
                  /\ d.new = Cardinality({i \in DOMAIN rs : rs[i].new})
                  /\ d.latest = Cardinality({i \in DOMAIN rs : ~rs[i].gone})
                  /\ \A i \in DOMAIN rs : ~(rs[i].new /\ rs[i].gone)
                  /\ 0 <= d.new /\ d.new <= d.latest /\ d.latest <= d.total]_vars

\* a result of two rows: one Gone, the other neither Gone nor New
C16_Witness ==
    \E p \in Procs :
        /\ HoldsData(p)
        /\ proc[p].data.total = 2
        /\ proc[p].data.latest = 1
        /\ proc[p].data.new = 0

\* C17: the LastSeen of a ResultData result is latest, the larger of the time
\* of the last unscoped submission and the last_seen of every returned row,
\* as a Unix timestamp (0 when there is neither a submission nor a row), and
\* it is 0 only when the result has no row.
C17_LastSeenIsLatest ==
    [][\A p \in Procs :
          (ReadsRows(p) /\ proc[p].op = "GET") =>
              LET d == proc'[p].data
                  rs == d.results
                  sweepTime == proc[p].latest
                  expected == IF sweepTime = ZeroTime /\ rs = <<>>
                                 THEN 0
                                 ELSE Unix(SpecLatest(sweepTime, rs))
              IN  /\ d.lastseen = expected
                  /\ d.lastseen = 0 => rs = <<>>]_vars

\* C18: on an empty store the unfiltered ResultData returns no row and
\* Total = 0, Latest = 0, New = 0, LastSeen = 0.
C18_EmptyStoreResult ==
    [][\A p \in Procs :
          (ReadsRows(p) /\ proc[p].op = "GET" /\ proc'[p].filter = NoFilter
              /\ scan = <<>> /\ submission = <<>>) =>
              proc'[p].data = [results |-> <<>>, total |-> 0, latest |-> 0,
                               new |-> 0, lastseen |-> 0]]_vars

\* GET / holds the result it read from a store that is still empty
C18_Witness ==
    \E p \in Procs :
        /\ HoldsData(p)
        /\ proc[p].filter = NoFilter
        /\ proc[p].latest = ZeroTime
        /\ scan = <<>> /\ submission = <<>>
        /\ proc[p].data.total = 0 /\ proc[p].data.lastseen = 0

\* the rows of the submission log that satisfy a restriction on the job
\* reference
Satisfying(tbl, where) ==
    {i \in DOMAIN tbl :
        \/ where = WhereAll
        \/ where = WhereNullJob /\ tbl[i].job_id = NullJob
        \/ where = WhereNotNullJob /\ tbl[i].job_id \in JobIDs}

\* the most recently inserted row that satisfies the restriction, or the
\* zero-value submission
MostRecent(tbl, where) ==
    LET S == Satisfying(tbl, where)
    IN  IF S = {} THEN [host |-> "", job_id |-> 0, time |-> ZeroTime]
        ELSE tbl[CHOOSE i \in S : \A j \in S : j <= i]

\* C19: each read of the latest submission (job reference null for LoadData,
\* non-null for the job page, unrestricted for the index page) yields the
\* most recently inserted row of the log that satisfies the restriction,
\* and the zero-value submission when no row satisfies it.
C19_LatestSubmission ==
    [][\A p \in Procs :
          /\ (proc[p].pc = "ld_sub" /\ proc'[p].pc = "ld_rows") =>
                proc'[p].latest = MostRecent(submission, WhereNullJob).time
          /\ (proc[p].pc = "jp_sub" /\ proc'[p].pc = "ld_sub") =>
                proc'[p].sub = MostRecent(submission, WhereNotNullJob)
          /\ (proc[p].pc = "ix_sub" /\ proc'[p].pc = "done") =>
                proc'[p].sub = MostRecent(submission, WhereAll)]_vars

\* the log ends with a job-scoped row after an unscoped one, and LoadData
\* has taken the time of the unscoped row
C19_Witness ==
    \E p \in Procs :
        /\ proc[p].pc = "ld_rows"
        /\ Len(submission) = 2
        /\ submission[1].job_id = NullJob
        /\ submission[2].job_id \in JobIDs
        /\ submission[1].time # submission[2].time
        /\ proc[p].latest = submission[1].time

\* the job page found no job-scoped row in a log that holds an unscoped one
C19_WitnessZero ==
    \E p \in Procs :
        /\ proc[p].op = "GETJOB"
        /\ proc[p].pc = "ld_sub"
        /\ submission # <<>>
        /\ proc[p].sub = ZeroSubmission

\* the handler of an ingestion request (POST /results or PUT /results/{id})
\* returns in this step
IngestEnds(p) ==
    /\ proc[p].pc \notin {"done", "panic"}
    /\ proc'[p].pc \in {"done", "panic"}
    /\ proc'[p].op \in {"POST", "PUT"}

\* ... and it answers 200
IngestSucceeds(p) ==
    IngestEnds(p) /\ proc'[p].pc = "done" /\ proc'[p].status = 200

\* C20: the submission log changes only in the step in which an ingestion
\* request succeeds, and then by exactly one appended row, whose job
\* reference is null for POST /results and the {id} of the request for
\* PUT /results/{id}; a step in which no ingestion succeeds (rejected and
\* failed requests included) leaves the log as it is, and no step changes
\* or removes a row already in the log.
C20_SubmissionLogAppendOnly ==
    [][LET Succ == {p \in Procs : IngestSucceeds(p)}
       IN  /\ Cardinality(Succ) <= 1
           /\ Succ = {} => submission' = submission
           /\ \A p \in Succ :
                 /\ Len(submission') = Len(submission) + 1
                 /\ SubSeq(submission', 1, Len(submission)) = submission
                 /\ submission'[Len(submission')].job_id =
                        (IF proc'[p].op = "POST" THEN NullJob ELSE proc'[p].jobParam)
                 /\ proc'[p].op = "PUT" => proc'[p].jobParam \in JobIDs
                 /\ submission'[Len(submission')].time = proc[p].now]_vars

\* the log holds the row of a POST /results and, after it, the row of the
\* PUT /results/{id} that has just answered 200
C20_Witness ==
    \E p \in Procs :
        /\ proc[p].pc = "done" /\ proc[p].op = "PUT" /\ proc[p].status = 200
        /\ Len(submission) = 2
        /\ submission[1].job_id = NullJob
        /\ submission[2].job_id = proc[p].jobParam

\* a second PUT /results/{id} for the same job was rejected and the log
\* still holds the one row of the first
C20_WitnessRejected ==
    \E p \in Procs :
        /\ proc[p].pc = "done" /\ proc[p].op = "PUT" /\ proc[p].status = 400
        /\ Len(submission) = 1
        /\ submission[1].job_id = proc[p].jobParam

\* p starts serving PUT /results/{id} in this step with an {id} that matches
\* no row of table job
StartsPutUnknownJob(p) ==
    StartsPut(p) /\ proc'[p].jobParam \notin DOMAIN job

\* C22: a PUT /results/{id} whose {id} matches no job is answered at once
\* with 400 "Job does not exist", which differs from the answer for a job
\* already fulfilled and is given for no other reason, and it leaves the
\* tables scan, submission and job as they were.
C22_UnknownJobRejected ==
    [][\A p \in Procs :
          /\ StartsPutUnknownJob(p) =>
                /\ proc'[p].pc = "done"
                /\ proc'[p].status = 400
                /\ proc'[p].msg = "Job does not exist"
                /\ proc'[p].msg # JobAlreadySubmitted
                /\ <<scan', job', submission'>> = <<scan, job, submission>>
                /\ work' = work
          /\ (StartsPut(p) /\ proc'[p].jobParam \in DOMAIN job) =>
                proc'[p].msg # "Job does not exist"]_vars

\* a fulfilment for an unknown job was refused on a store that holds
\* observations
C22_Witness ==
    \E p \in Procs :
        /\ proc[p].pc = "done" /\ proc[p].op = "PUT"
        /\ proc[p].status = 400 /\ proc[p].msg = "Job does not exist"
        /\ proc[p].jobParam \notin DOMAIN job
        /\ scan # <<>>

\* p, serving an accepted PUT /results/{id}, ends in this step with an error:
\* a response other than 200, or a panic
PutFails(p) ==
    /\ proc[p].op = "PUT"
    /\ proc[p].pc \notin {"idle", "done", "panic"}
    /\ proc'[p].pc \in {"done", "panic"}
    /\ ~(proc'[p].pc = "done" /\ proc'[p].status = 200)

\* the SaveData of p committed and every stored record of its batch is in
\* table tbl with the last_seen p wrote
BatchCommitted(p, tbl) ==
    /\ proc[p].pc \in {"uj_exec", "uj_commit", "ss_exec", "ss_commit"}
    /\ proc[p].commitOK
    /\ NonSkipped(proc[p].res) # {}
    /\ \A n \in NonSkipped(proc[p].res) :
          \E i \in DOMAIN tbl :
              SameKey(tbl[i], proc[p].res[n]) /\ tbl[i].lastseen = proc[p].now

\* C23: when a PUT /results/{id} ends in an error, the store does not hold
\* the observations of its batch with the job still pending, and it does not
\* hold the job marked received by this request without a submission row
\* for the job.
C23_FailedFulfilmentLeavesStore ==
    [][\A p \in Procs :
          PutFails(p) =>
              LET id == proc[p].jobParam IN
              /\ ~(BatchCommitted(p, scan') /\ job'[id].received = ZeroTime)
              /\ ~(/\ proc[p].pc \in {"ss_exec", "ss_commit"}
                    /\ job'[id].received # ZeroTime
                    /\ \A i \in DOMAIN submission' : submission'[i].job_id # id)]_vars

\* the distinct (ip, port, proto) keys among the non-skipped records of b
DistinctKeys(b) == {KeyOf(b[n]) : n \in NonSkipped(b)}

\* p's UpdateJob commits in this step
UpdateJobCommits(p) == proc[p].pc = "uj_commit" /\ proc'[p].pc = "ss_exec"

\* C24: the count that a fulfilment stores in its job is the number of
\* distinct (ip, port, proto) keys among the non-skipped records of its
\* batch, and the job still holds it when the fulfilment answers 200,
\* unless another fulfilment of the job has been accepted meanwhile.
C24_CountIsDistinctKeys ==
    [][\A p \in Procs :
          /\ UpdateJobCommits(p) =>
                job'[proc[p].jobParam].count = Cardinality(DistinctKeys(proc[p].res))
          /\ (IngestSucceeds(p) /\ proc[p].op = "PUT" /\ fulfils[proc[p].jobParam] = 1) =>
                job'[proc[p].jobParam].count = Cardinality(DistinctKeys(proc[p].res))]_vars

\* GET /jobs is served in this step by p
ListsJobs(p) == proc[p].pc = "idle" /\ proc'[p].op = "GETJOBS"

\* the jobs of table tbl whose received is unset
PendingJobs(tbl) == {id \in DOMAIN tbl : tbl[id].received = ZeroTime}

\* C21: the list GET /jobs returns holds exactly the stored jobs whose
\* received is unset, each once and with the fields of its row; a job is
\* stored with received unset, stays stored, and once its received is set no
\* step unsets it, so a job is listed from its creation until its fulfilment
\* and never after.
C21_PendingJobList ==
    [][/\ \A p \in Procs :
            ListsJobs(p) =>
                LET js == proc'[p].jobs IN
                /\ {js[i].id : i \in DOMAIN js} = PendingJobs(job)
                /\ Len(js) = Cardinality(PendingJobs(job))
                /\ \A i \in DOMAIN js :
                      /\ js[i].received = ZeroTime
                      /\ js[i].cidr = job[js[i].id].cidr
                      /\ js[i].ports = job[js[i].id].ports
                      /\ js[i].proto = job[js[i].id].proto
       /\ \A id \in DOMAIN job :
            /\ id \in DOMAIN job'
            /\ id \notin PendingJobs(job) => id \notin PendingJobs(job')
       /\ \A id \in DOMAIN job' \ DOMAIN job : id \in PendingJobs(job')]_vars

\* job 1 has been fulfilled, job 2 has not, and GET /jobs returned job 2 alone
C21_Witness ==
    \E p \in Procs :
        /\ proc[p].pc = "done" /\ proc[p].op = "GETJOBS"
        /\ Len(job) = 2
        /\ job[1].received # ZeroTime
        /\ job[2].received = ZeroTime
        /\ Len(proc[p].jobs) = 1
        /\ proc[p].jobs[1].id = 2

\* the SaveJob of p returns an ID in this step: a job has been created
JobCreated(p) ==
    /\ proc[p].pc = "sj_commit"
    /\ Len(proc'[p].jobID) = Len(proc[p].jobID) + 1

\* C25: the ID SaveJob returns for a created job is the rowid of the one row
\* the creation added to table job; it is larger than the ID of every job
\* stored before and than every ID returned before, hence unique, and it is
\* 1 when the table was empty.
C25_JobIDsIncrease ==
    [][\A p \in Procs :
          JobCreated(p) =>
              LET ids == proc'[p].jobID
                  id == ids[Len(ids)]
              IN  /\ DOMAIN job' = DOMAIN job \cup {id}
                  /\ id \notin DOMAIN job
                  /\ \A j \in DOMAIN job : j < id /\ job'[j] = job[j]
                  /\ \A q \in Procs : \A n \in DOMAIN proc[q].jobID : proc[q].jobID[n] < id
                  /\ job = <<>> => id = 1
                  /\ job'[id].proto = ToLower(proc[p].form.proto[proc[p].idx])]_vars

\* one form with two protocols has created the jobs 1 and 2
C25_Witness ==
    \E p \in Procs :
        /\ proc[p].pc = "done" /\ proc[p].op = "JOB" /\ proc[p].status = 200
        /\ proc[p].jobID = <<1, 2>>
        /\ Len(job) = 2
        /\ job[1].proto = "tcp" /\ job[2].proto = "udp"

\* two forms, each with one protocol, have created the jobs 1 and 2
C25_WitnessTwoForms ==
    \E p, q \in Procs :
        /\ proc[p].pc = "done" /\ proc[p].jobID = <<1>>
        /\ proc[q].pc = "done" /\ proc[q].jobID = <<2>>

\* POST /job arrives at p in this step and its form is found incomplete
JobFormRejected(p) ==
    proc[p].pc = "idle" /\ proc'[p].op = "JOB" /\ proc'[p].errors # <<>>

\* C26: a POST /job whose form lacks cidr, ports or protocol, or carries an
\* empty one, changes no table, and every stored job has a non-empty cidr,
\* ports and protocol.
C26_IncompleteFormCreatesNoJob ==
    [][/\ \A p \in Procs :
            JobFormRejected(p) =>
                <<scan', job', submission'>> = <<scan, job, submission>> /\ work' = work
       /\ \A id \in DOMAIN job' :
            job'[id].cidr # "" /\ job'[id].ports # "" /\ job'[id].proto # ""]_vars

\* the handler of an ingestion request ends in this step on a malformed
\* payload: saveResults refused the Content-Type or the body, or SaveData
\* came to a record without ports
MalformedEnds(p) ==
    /\ IngestEnds(p)
    /\ \/ proc'[p].msg \in {"invalid Content-Type", "invalid JSON"}
       \/ /\ proc[p].pc = "sd_loop"
          /\ proc[p].idx <= Len(proc[p].res)
          /\ proc[p].res[proc[p].idx].nports = 0

\* C27: an ingestion request with a malformed payload is answered with a
\* status of the 4xx class, has changed no table, and leaves no transaction
\* open: its connection holds no lock and no uncommitted write.
C27_MalformedPayloadRejected ==
    [][\A p \in Procs :
          MalformedEnds(p) =>
              /\ proc'[p].pc = "done"
              /\ proc'[p].status \in 400..499
              /\ <<scan', job', submission'>> = <<scan, job, submission>>
              /\ p \notin shared' /\ reserved' # p
              /\ work' = Tables]_vars

\* a request whose session has no user is answered in this step
AnonymousServed(p) ==
    /\ proc[p].pc = "idle"
    /\ proc'[p].pc = "done"
    /\ proc'[p].op \in {"GET", "GETIPS"}
    /\ proc'[p].user = NoUser

\* the response of GET /ips.json on the tables tbl
IPsResponse(tbl) ==
    IPsOf(LoadData(SelectScan(tbl.scan, NoFilter),
                   LoadSubmission(tbl.submission, WhereNullJob).time))

\* stores that differ from the present one in table scan only
OtherScans ==
    {<<>>, InsertRow(<<>>, Rec("192.0.2.2", "open", "", ""), TicksPerSec)}

\* C28: the response to a request whose session has no user holds no
\* observation row and no IP address of an observation, and it is the
\* response the same request gets on every store that differs in table scan
\* only.
C28_NoScanDataWithoutSession ==
    [][\A p \in Procs :
          AnonymousServed(p) =>
              /\ proc'[p].data.results = <<>>
              /\ proc'[p].ips = <<>>
              /\ proc'[p].op = "GETIPS" =>
                    \A other \in OtherScans :
                        IPsResponse([Tables EXCEPT !.scan = other]) = proc'[p].ips]_vars

(***************************************************************************)
(* The allow-list                                                          *)
(***************************************************************************)
\* the handler of p takes the step that processes an add_email which the
\* users table holds
AddsListed(p) ==
    /\ proc[p].pc = "af_add"
    /\ proc[p].admin.add_email # ""
    /\ \E i \in DOMAIN users : users[i] = proc[p].admin.add_email
    /\ proc'[p] # proc[p]

NoEmailTwice(tbl) == \A i, j \in DOMAIN tbl : tbl[i] = tbl[j] => i = j

\* C29: adding an email that is already on the allow-list is rejected with
\* errUserExists (400, "User already exists") and leaves the users table
\* unchanged; and the users table never holds an email twice, concurrent
\* add requests included.
C29_AddListedRejected ==
    [][/\ \A p \in Procs :
            AddsListed(p) =>
                /\ proc'[p].pc = "done"
                /\ proc'[p].status = 400
                /\ proc'[p].msg = userExists
                /\ users' = users
       /\ NoEmailTwice(users')]_vars

\* the half of C29 on duplicates
AllowListUnique == NoEmailTwice(users) /\ NoEmailTwice(work.users)

\* the handler of p, serving a form whose delete_email is the email of its
\* session's user, takes a step
DeletesSelf(p) ==
    /\ proc[p].pc \in {"af_add", "su_commit", "af_delete"}
    /\ proc[p].admin.delete_email = proc[p].user
    /\ proc'[p] # proc[p]

\* C30: a POST /admin whose delete_email is the requesting user's own email
\* changes nothing in the users table, and when adminFormProcess reaches the
\* deletion it is answered with errSelfDeletion (400, "You can't delete
\* yourself").
C30_SelfDeletionLeavesList ==
    [][\A p \in Procs :
          DeletesSelf(p) =>
              /\ users' = users
              /\ (proc[p].pc = "af_delete" =>
                      /\ proc'[p].pc = "done"
                      /\ proc'[p].status = 400
                      /\ proc'[p].msg = selfDeletion)]_vars

\* the half of C30 on the requesting user's own email
SelfStaysListed ==
    [][\A p \in Procs :
          DeletesSelf(p) =>
              (Listed(users, proc[p].user) => Listed(users', proc[p].user))]_vars

(***************************************************************************)
(* Traceroutes                                                             *)
(***************************************************************************)
\* the paths stored for dest
PathsOf(tbl, dest) == {tbl[i].path : i \in {j \in DOMAIN tbl : tbl[j].dest = dest}}

RowsFor(tbl, dest) == Cardinality({i \in DOMAIN tbl : tbl[i].dest = dest})

\* the handler of p answers POST /traceroute with 201
TraceroutePosted(p) ==
    /\ proc[p].op = "POSTTRACE"
    /\ proc[p].pc # "done"
    /\ proc'[p].pc = "done"
    /\ proc'[p].status = 201

\* the handler of p answers GET /traceroute/{ip}
TracerouteServed(p) == proc[p].pc = "idle" /\ proc'[p].op = "GETTRACE"

\* C31: no traceroute is stored before a post; a post of body b for d that
\* is answered 201 leaves b as the one path stored for d and the other
\* destinations as they were, and nothing else changes the table; a lookup
\* of d is answered 404 "Traceroute not found" when nothing is stored for d
\* and else 200 with the stored path; at most one row is stored per
\* destination.
C31_TracerouteLookup ==
    [][/\ \A p \in Procs :
            TraceroutePosted(p) =>
                /\ PathsOf(traceroute', proc[p].dest) = {proc[p].trace}
                /\ \A d \in IPs \ {proc[p].dest} :
                      PathsOf(traceroute', d) = PathsOf(traceroute, d)
       /\ (\A p \in Procs : ~TraceroutePosted(p)) => traceroute' = traceroute
       /\ \A p \in Procs :
            TracerouteServed(p) =>
                LET d == proc'[p].dest IN
                /\ traceroute' = traceroute
                /\ PathsOf(traceroute, d) = {} =>
                      proc'[p].status = 404 /\ proc'[p].msg = TracerouteNotFound
                /\ PathsOf(traceroute, d) # {} =>
                      proc'[p].status = 200 /\ PathsOf(traceroute, d) = {proc'[p].msg}
       /\ \A d \in IPs : RowsFor(traceroute', d) <= 1]_vars

\* a lookup is answered with the second body posted for its destination
C31_Witness ==
    \E p, q \in Procs :
        /\ proc[p].pc = "done" /\ proc[p].op = "GETTRACE" /\ proc[p].status = 200
        /\ proc[q].pc = "done" /\ proc[q].op = "POSTTRACE" /\ proc[q].status = 201
        /\ proc[q].dest = proc[p].dest /\ proc[q].trace = proc[p].msg
        /\ nreq = 3
        /\ traceroute = <<[dest |-> proc[p].dest, path |-> proc[p].msg]>>

\* a lookup of a destination never posted is answered 404
C31_WitnessNotFound ==
    \E p \in Procs :
        /\ proc[p].pc = "done" /\ proc[p].op = "GETTRACE" /\ proc[p].status = 404
        /\ traceroute # <<>>

(***************************************************************************)
(* Concurrent ingestion                                                    *)
(***************************************************************************)
\* C32: no step moves the lastseen of a stored observation backwards; so
\* when two POST /results with different now update one key, its lastseen
\* ends at the larger now whatever the interleaving.
C32_LastSeenNeverBackwards ==
    [][\A i \in DOMAIN scan :
          /\ i \in DOMAIN scan'
          /\ SameKey(scan'[i], scan[i])
          /\ scan'[i].lastseen >= scan[i].lastseen]_vars

(***************************************************************************)
(* Staleness and the filter                                                *)
(***************************************************************************)
\* the filters a query can carry: an address, a firstseen, a lastseen
FilterQueries ==
    {Query(ip, fs, ls) : ip \in {""} \cup IPs, fs \in {<<>>, <<1>>},
                         ls \in {<<>>, <<1>>, <<2>>}}

\* what LoadData returns for the filter f on the committed store
LoadDataOn(f) ==
    LoadData(SelectScan(scan, f), LoadSubmission(submission, WhereNullJob).time)

SameObservation(a, b) ==
    /\ a.ip = b.ip /\ a.port = b.port /\ a.proto = b.proto
    /\ a.firstseen = b.firstseen /\ a.lastseen = b.lastseen

\* C33: on every store and for every filter, an observation that LoadData
\* marks Gone under the filter is marked Gone by LoadData without a filter.
C33_GoneMonotonicInFilter ==
    LET all == LoadDataOn(NoFilter) IN
    \A f \in FilterQueries :
        LET filtered == LoadDataOn(f) IN
        \A i \in DOMAIN filtered :
            filtered[i].gone =>
                /\ \E j \in DOMAIN all : SameObservation(all[j], filtered[i])
                /\ \A j \in DOMAIN all :
                      SameObservation(all[j], filtered[i]) => all[j].gone

\* a store on which a query for one address marks its observation Gone
C33_Witness ==
    \E f \in FilterQueries :
        /\ f.ip # ""
        /\ \E i \in DOMAIN LoadDataOn(f) : LoadDataOn(f)[i].gone
        /\ Len(scan) = 2

\* a store on which an observation is Gone without a filter and not Gone
\* under a filter
C33_WitnessStrict ==
    \E f \in FilterQueries :
        \E i \in DOMAIN LoadDataOn(f), j \in DOMAIN LoadDataOn(NoFilter) :
            /\ SameObservation(LoadDataOn(f)[i], LoadDataOn(NoFilter)[j])
            /\ ~LoadDataOn(f)[i].gone
            /\ LoadDataOn(NoFilter)[j].gone

(***************************************************************************)
(* Banner records                                                          *)
(***************************************************************************)
\* SaveData of p is at a record whose service banner is not empty
AtBannerRecord(p) ==
    /\ proc[p].pc \in {"sd_loop", "sd_write"}
    /\ proc[p].idx <= Len(proc[p].res)
    /\ proc[p].res[proc[p].idx].banner # ""

\* C34: SaveData passes over a record whose service banner is not empty,
\* whatever its service name: no step it takes at that record inserts or
\* updates a row of scan, committed or not.
C34_BannerRecordSkipped ==
    [][\A p \in Procs :
          (AtBannerRecord(p) /\ proc'[p] # proc[p]) =>
              work'.scan = work.scan /\ scan' = scan]_vars

(***************************************************************************)
(* Submissions of a job                                                    *)
(***************************************************************************)
SubmissionsOf(tbl, id) == {i \in DOMAIN tbl : tbl[i].job_id = id}

\* C35: in every state at most one row of submission references a given
\* job.
C35_OneSubmissionPerJob ==
    \A id \in JobIDs : Cardinality(SubmissionsOf(submission, id)) <= 1

(***************************************************************************)
(* The commit of SaveData                                                  *)
(***************************************************************************)
\* SaveData of p returns its count and a nil error in this step
SaveDataReturnsCount(p) ==
    /\ proc[p].pc = "sd_loop"
    /\ proc'[p].pc \in {"ss_exec", "uj_exec"}

\* C37: when SaveData returns a count and no error, its txn.Commit() has
\* succeeded and the rows its transaction wrote are the committed table; a
\* Commit that fails never ends in a returned count.
C37_CountMeansCommitted ==
    [][\A p \in Procs :
          SaveDataReturnsCount(p) =>
              /\ proc'[p].commitOK
              /\ scan' = View(p).scan]_vars

(***************************************************************************)
(* What UpdateJob returns                                                  *)
(***************************************************************************)
\* a direct call of UpdateJob by p returns nil in this step
UpdateJobNil(p) ==
    /\ proc[p].op = "UpdateJob"
    /\ proc[p].pc \in {"uj_exec", "uj_commit"}
    /\ proc'[p].pc = "done"
    /\ proc'[p].msg = ""

\* a direct call of UpdateJob by p, for an id that no job has, returns in
\* this step
UpdateJobUnknown(p) ==
    /\ proc[p].op = "UpdateJob"
    /\ proc[p].pc = "uj_exec"
    /\ proc[p].jobParam \notin DOMAIN View(p).job
    /\ proc'[p].pc = "done"

\* C38: UpdateJob returns nil only in the step that commits its update of
\* the one row of its id, which then holds its count; for an id that no job
\* has it returns an error and leaves the table as it was.
C38_UpdateJobNilMeansUpdated ==
    [][\A p \in Procs :
          /\ UpdateJobNil(p) =>
                /\ proc[p].pc = "uj_commit"
                /\ proc[p].jobParam \in DOMAIN job'
                /\ job'[proc[p].jobParam].count = proc[p].count
                /\ job'[proc[p].jobParam].received # ZeroTime
          /\ UpdateJobUnknown(p) =>
                /\ proc'[p].msg # ""
                /\ job' = job]_vars

(***************************************************************************)
(* The empty sweep                                                         *)
(***************************************************************************)
\* POST /results of the batch [] by p is answered 200 in this step, and its
\* now is later than the lastseen of every stored observation
EmptySweepSucceeds(p) ==
    /\ IngestSucceeds(p)
    /\ proc[p].op = "POST"
    /\ proc[p].res = <<>>
    /\ \A i \in DOMAIN scan : scan[i].lastseen < proc[p].now

\* C36: a POST /results of [] that is answered 200, with a now later than
\* every stored lastseen, appends a submission without a job at its now and
\* leaves scan as it is; ResultData without a filter on the store it leaves
\* reports every stored observation as Gone: Total is the number of rows,
\* Latest is 0 and New is 0.
C36_EmptySweepMakesAllGone ==
    [][\A p \in Procs :
          EmptySweepSucceeds(p) =>
              LET data == ResultData(LoadData(SelectScan(scan', NoFilter),
                              LoadSubmission(submission', WhereNullJob).time))
              IN  /\ scan' = scan
                  /\ submission' = Append(submission,
                         [host |-> "scanner", job_id |-> NullJob, time |-> proc[p].now])
                  /\ data.total = Len(scan)
                  /\ \A i \in DOMAIN data.results : data.results[i].gone
                  /\ data.latest = 0
                  /\ data.new = 0]_vars

\* GET / without a filter, served after an empty sweep, reports stored
\* observations of which none is active or new
C36_Witness ==
    \E p \in Procs :
        /\ proc[p].op = "GET" /\ proc[p].pc = "ix_sub"
        /\ proc[p].filter = NoFilter
        /\ scan # <<>>
        /\ proc[p].data.total = Len(scan)
        /\ proc[p].data.latest = 0 /\ proc[p].data.new = 0
        /\ LoadSubmission(submission, WhereNullJob).time = proc[p].latest
        /\ \A i \in DOMAIN scan : scan[i].lastseen < proc[p].latest

\* the empty sweep is about to record its submission on a store that holds
\* observations
C36_WitnessSweep ==
    \E p \in Procs :
        /\ proc[p].op = "POST" /\ proc[p].pc = "ss_commit" /\ proc[p].res = <<>>
        /\ scan # <<>>
        /\ \A i \in DOMAIN scan : scan[i].lastseen < proc[p].now
====
